---------------------------- MODULE Spec2Model ----------------------------
(***************************************************************************)
(* A model of the signet identification engine                             *)
(* (github.com/iamgideonidoko/signet): the similarity calculator, the      *)
(* Redis cache, the Postgres repository and IdentificationService.Identify.*)
(*                                                                         *)
(* Conventions.                                                            *)
(*   - A Go string that the code takes apart (the user agent) is a         *)
(*     sequence of one-character strings; every other string is a TLA+     *)
(*     string.                                                             *)
(*   - A float64 weight w is the integer 1000*w; a similarity score is the *)
(*     exact fraction <<num, den>> in lowest terms.                        *)
(*   - SHA-256 is collision free here: a digest is the value it digests.   *)
(*   - A uuid is a positive integer, uuid.Nil is 0.                        *)
(***************************************************************************)
EXTENDS Integers, Sequences, FiniteSets, TLC

\* ------------------------------------------------------------------ bounds

\* Number of Identify calls a behaviour holds.
MaxReq == 3

\* Longest candidate list handed to the scoring loop in SpecDecide.
MaxCands == 2

\* Number of failing calls and foreign cache writes in a behaviour whose
\* failures are counted.
MaxFaults == 1

\* ------------------------------------------------------- program constants

\* similarity.DefaultWeights, in thousandths.
HardwareWeight == 800
EnvironmentWeight == 500
SoftwareWeight == 200

\* config default of SIMILARITY_THRESHOLD, in thousandths.
DefaultThreshold == 750

\* The limit Identify passes to FindSimilarVisitors.
CandidateLimit == 50

\* Columns of the identifications table, and the destinations rows.Scan is given.
TableColumns == 10
ScanDests == 9

\* Mask lengths: of the value the generated column ip_subnet stores (the & of
\* two host addresses keeps /32) and of the parameter extractIPSubnet formats.
StoredMaskLen == 32
QueryMaskLen == 24

NilUUID == 0

\* The validator: `^[a-fA-F0-9]{8,128}$`, hardware_concurrency at most 256,
\* user_agent at most 1000 bytes.
MinHashLen == 8
MaxHashLen == 128
MaxHardwareConcurrency == 256
MaxUserAgentLen == 1000

\* ----------------------------------------------------------------- strings

Upper == <<"A","B","C","D","E","F","G","H","I","J","K","L","M",
           "N","O","P","Q","R","S","T","U","V","W","X","Y","Z">>
Lower == <<"a","b","c","d","e","f","g","h","i","j","k","l","m",
           "n","o","p","q","r","s","t","u","v","w","x","y","z">>

\* strings.ToLower, one character.
ToLowerCh(c) ==
    IF \E i \in 1..26 : Upper[i] = c
    THEN Lower[CHOOSE i \in 1..26 : Upper[i] = c]
    ELSE c

ToLower(s) == [i \in 1..Len(s) |-> ToLowerCh(s[i])]

\* strings.Index: the first position of sub in s, 0 when absent
\* (Go's -1; positions here start at 1).
Index(s, sub) ==
    LET hits == {i \in 1..(Len(s) - Len(sub) + 1) : SubSeq(s, i, i + Len(sub) - 1) = sub}
    IN  IF hits = {} THEN 0 ELSE CHOOSE i \in hits : \A j \in hits : i <= j

\* s[i:] of Go, for a position i starting at 1.
From(s, i) == SubSeq(s, i, Len(s))

\* The text before the first occurrence of the one-character separator sep
\* (the whole text when it does not occur): strings.Split(s, sep)[0].
Before(s, sep) ==
    LET i == Index(s, <<sep>>) IN IF i = 0 THEN s ELSE SubSeq(s, 1, i - 1)

\* Whether strings.Split(s, sep) has more than one part.
HasSecondPart(s, sep) == Index(s, <<sep>>) # 0

\* strings.Split(s, sep)[1], when it exists.
SecondPart(s, sep) == Before(From(s, Index(s, <<sep>>) + 1), sep)

IsSpace(c) == c \in {" ", "\t", "\n"}

RECURSIVE TrimLeft(_)
TrimLeft(s) == IF s # <<>> /\ IsSpace(Head(s)) THEN TrimLeft(Tail(s)) ELSE s

RECURSIVE TrimRight(_)
TrimRight(s) ==
    IF s # <<>> /\ IsSpace(s[Len(s)]) THEN TrimRight(SubSeq(s, 1, Len(s) - 1)) ELSE s

\* strings.TrimSpace.
TrimSpace(s) == TrimRight(TrimLeft(s))

\* The browser tokens extractBrowserVersion scans for, in its order.
Browsers == << <<"c","h","r","o","m","e">>, <<"f","i","r","e","f","o","x">>,
               <<"s","a","f","a","r","i">>, <<"e","d","g","e">>,
               <<"o","p","e","r","a">> >>

Unknown == <<"u","n","k","n","o","w","n">>

\* The loop of extractBrowserVersion from browser k on, over the lowercased ua.
RECURSIVE ScanBrowsers(_, _)
ScanBrowsers(ua, k) ==
    IF k > Len(Browsers) THEN Unknown
    ELSE LET idx == Index(ua, Browsers[k]) IN
         IF idx # 0 /\ HasSecondPart(From(ua, idx), "/")
         THEN Browsers[k] \o <<":">>
                \o TrimSpace(Before(SecondPart(From(ua, idx), "/"), "."))
         ELSE ScanBrowsers(ua, k + 1)

\* extractBrowserVersion: browser name and major version of a user agent.
extractBrowserVersion(ua) ==
    IF ua = <<>> THEN <<>> ELSE ScanBrowsers(ToLower(ua), 1)

\* "Mozilla/5.0 Chrome/120.0.0.0" and its update to Chrome/121.
UAChrome120 == <<"M","o","z","i","l","l","a","/","5",".","0"," ",
                 "C","h","r","o","m","e","/","1","2","0",".","0",".","0",".","0">>
UAChrome121 == <<"M","o","z","i","l","l","a","/","5",".","0"," ",
                 "C","h","r","o","m","e","/","1","2","1",".","0",".","0",".","0">>

\* ----------------------------------------------------------------- signals

\* The sentinels a client sends for a canvas it could not draw.
CanvasError == <<"e", "r", "r", "o", "r">>
CanvasNoContext == <<"n", "o", "_", "c", "o", "n", "t", "e", "x", "t">>

\* models.Signals, the fields the engine reads.  DeviceMemory is held in
\* halves (16 GB is 32), so that a fractional value can be written; the
\* canvas digest and the user agent are held character by character.
SigA ==
    [Canvas2DHash |-> <<"a", "b", "c", "1", "2", "3">>, AudioHash |-> "def456",
     WebGLVendor |-> "NVIDIA", WebGLRenderer |-> "GeForce GTX 1080",
     WebGLExtensions |-> <<>>, HardwareConcurrency |-> 8, DeviceMemory |-> 32,
     ColorDepth |-> 0, TimeZone |-> "America/New_York",
     Languages |-> <<"en-US", "en">>, Fonts |-> <<>>,
     ScreenWidth |-> 0, ScreenHeight |-> 0, Platform |-> "Win32",
     UserAgent |-> UAChrome120,
     WebDriver |-> FALSE, PhantomPresent |-> FALSE, SeleniumPresent |-> FALSE,
     AutomationPresent |-> FALSE, HeadlessChrome |-> FALSE]

\* S2: the browser update.
SigA2 == [SigA EXCEPT !.UserAgent = UAChrome121]

\* S3: the GPU swap.
SigB == [SigA EXCEPT !.Canvas2DHash = <<"x", "y", "z", "7", "8", "9">>,
                     !.AudioHash = "uvw012", !.WebGLRenderer = "GeForce RTX 3080"]

\* The same device in another time zone.
SigT == [SigA EXCEPT !.TimeZone = "Europe/Berlin"]

\* A device that shares no feature with SigA.
SigZ ==
    [Canvas2DHash |-> <<"0", "1", "2", "3", "a", "b", "c", "d">>,
     AudioHash |-> "89efcdab",
     WebGLVendor |-> "Intel", WebGLRenderer |-> "Iris Xe",
     WebGLExtensions |-> <<"OES_texture_float">>, HardwareConcurrency |-> 4,
     DeviceMemory |-> 8, ColorDepth |-> 24, TimeZone |-> "Asia/Tokyo",
     Languages |-> <<"ja">>, Fonts |-> <<"Meiryo">>,
     ScreenWidth |-> 1920, ScreenHeight |-> 1080, Platform |-> "Linux x86_64",
     UserAgent |-> <<"F","i","r","e","f","o","x","/","1","2","1",".","0">>,
     WebDriver |-> FALSE, PhantomPresent |-> FALSE, SeleniumPresent |-> FALSE,
     AutomationPresent |-> FALSE, HeadlessChrome |-> FALSE]

\* SigZ with a carriage return, a tab and a newline in its user agent.
SigC == [SigZ EXCEPT !.UserAgent =
            <<"F","i","r","e","f","o","x","\r","/","1","2","1","\t",".","0","\n">>]

\* The bundles stored identifications carry when a specification starts
\* from a store that is not empty.
StoredBundles == {"A", "A2", "B", "T", "Z"}

\* SigA as an automated browser reports it, one bundle per automation flag.
FlagBundles == {"W", "P", "S", "U", "H"}

\* The bundles of the model, by name.
BundleNames == StoredBundles \cup FlagBundles \cup {"C"}

Signals(b) ==
    CASE b = "A" -> SigA
      [] b = "A2" -> SigA2
      [] b = "B" -> SigB
      [] b = "T" -> SigT
      [] b = "Z" -> SigZ
      [] b = "W" -> [SigA EXCEPT !.WebDriver = TRUE]
      [] b = "P" -> [SigA EXCEPT !.PhantomPresent = TRUE]
      [] b = "S" -> [SigA EXCEPT !.SeleniumPresent = TRUE]
      [] b = "U" -> [SigA EXCEPT !.AutomationPresent = TRUE]
      [] b = "H" -> [SigA EXCEPT !.HeadlessChrome = TRUE]
      [] b = "C" -> SigC

\* -------------------------------------------------------------- similarity

Range(s) == {s[i] : i \in DOMAIN s}

Min(a, b) == IF a <= b THEN a ELSE b
Max(a, b) == IF a >= b THEN a ELSE b

RECURSIVE GCD(_, _)
GCD(a, b) == IF b = 0 THEN a ELSE GCD(b, a % b)

\* The fraction n/d (d > 0) in lowest terms.
Frac(n, d) == <<n \div GCD(n, d), d \div GCD(n, d)>>

Zero == <<0, 1>>
One == <<1, 1>>

\* Comparison of fractions with positive denominators.
Less(x, y) == x[1] * y[2] < y[1] * x[2]
LessEq(x, y) == x[1] * y[2] <= y[1] * x[2]

\* fmt.Sprintf("%.0f", x) for x given in halves: round half to even.
Fmt0(halves) ==
    LET q == halves \div 2 IN
    IF halves % 2 = 0 THEN q ELSE IF q % 2 = 0 THEN q ELSE q + 1

\* fmt.Sprintf("%.2f", w) for a weight in thousandths: hundredths.
Fmt2(w) == (w + 5) \div 10

\* hashStringSlice: "empty" for an empty list, else the digest of the sorted
\* join, which depends on the items and their multiplicities only.
hashStringSlice(items) ==
    IF Len(items) = 0 THEN <<"empty">>
    ELSE <<"sha", [x \in Range(items) |->
                     Cardinality({i \in DOMAIN items : items[i] = x})]>>

\* The (key, weight) pairs ExtractFeatures stores, for weights w.
FeaturePairs(s, w) ==
    (IF s.Canvas2DHash # <<>> THEN {<< <<"canvas", s.Canvas2DHash>>, w.Hardware >>} ELSE {})
    \cup (IF s.AudioHash # "" THEN {<< <<"audio", s.AudioHash>>, w.Hardware >>} ELSE {})
    \cup {<< <<"webgl", s.WebGLVendor, s.WebGLRenderer>>, w.Hardware >>,
          << <<"webgl_ext", hashStringSlice(s.WebGLExtensions)>>, (w.Hardware * 7) \div 10 >>,
          << <<"hw_concurrency", s.HardwareConcurrency>>, (w.Hardware * 6) \div 10 >>,
          << <<"device_memory", Fmt0(s.DeviceMemory)>>, (w.Hardware * 6) \div 10 >>,
          << <<"color_depth", s.ColorDepth>>, (w.Hardware * 5) \div 10 >>}
    \cup (IF s.TimeZone # "" THEN {<< <<"tz", s.TimeZone>>, w.Environment >>} ELSE {})
    \cup {<< <<"lang", hashStringSlice(s.Languages)>>, w.Environment >>,
          << <<"fonts", hashStringSlice(s.Fonts)>>, (w.Environment * 9) \div 10 >>,
          << <<"screen", s.ScreenWidth, s.ScreenHeight>>, (w.Environment * 7) \div 10 >>}
    \cup (IF s.Platform # "" THEN {<< <<"platform", s.Platform>>, w.Software >>} ELSE {})
    \cup (IF extractBrowserVersion(s.UserAgent) # <<>>
          THEN {<< <<"browser", extractBrowserVersion(s.UserAgent)>>, w.Software >>}
          ELSE {})

\* Variant: every feature goes into the digest.
computeVectorHash_AllFeatures(pairs, w) == {<<p[1], Fmt2(p[2])>> : p \in pairs}

\* computeVectorHash: the digest of the features whose weight is at least the
\* environment weight, each written as key:weight with two decimals.
computeVectorHash(pairs, w) ==
    {<<p[1], Fmt2(p[2])>> : p \in {q \in pairs : q[2] >= w.Environment}}

\* ExtractFeatures: the feature map and its vector digest.
ExtractFeatures(s, w) ==
    LET pairs == FeaturePairs(s, w) IN
    [Features |-> [k \in {p[1] : p \in pairs} |-> (CHOOSE p \in pairs : p[1] = k)[2]],
     Hash |-> computeVectorHash(pairs, w)]

RECURSIVE SumOver(_, _)
SumOver(S, f) ==
    IF S = {} THEN 0
    ELSE LET x == CHOOSE y \in S : TRUE IN f[x] + SumOver(S \ {x}, f)

\* Variant: the keys of the second map alone are left out of the union.
WeightedJaccard_OneSided(f1, f2) ==
    LET both == DOMAIN f1 \cap DOMAIN f2
        only1 == DOMAIN f1 \ DOMAIN f2
        intersection == SumOver(both, [k \in both |-> Min(f1[k], f2[k])])
        union == SumOver(both, [k \in both |-> Max(f1[k], f2[k])])
                 + SumOver(only1, f1)
    IN  IF union = 0 THEN Zero ELSE Frac(intersection, union)

\* Variant: a shared key adds both its weights to the intersection.
WeightedJaccard_SumOfBoth(f1, f2) ==
    LET both == DOMAIN f1 \cap DOMAIN f2
        only1 == DOMAIN f1 \ DOMAIN f2
        only2 == DOMAIN f2 \ DOMAIN f1
        intersection == SumOver(both, [k \in both |-> f1[k] + f2[k]])
        union == SumOver(both, [k \in both |-> Max(f1[k], f2[k])])
                 + SumOver(only1, f1) + SumOver(only2, f2)
    IN  IF union = 0 THEN Zero ELSE Frac(intersection, union)

\* Variant: sum of max over sum of min.
WeightedJaccard_Inverted(f1, f2) ==
    LET both == DOMAIN f1 \cap DOMAIN f2
        only1 == DOMAIN f1 \ DOMAIN f2
        only2 == DOMAIN f2 \ DOMAIN f1
        intersection == SumOver(both, [k \in both |-> Min(f1[k], f2[k])])
        union == SumOver(both, [k \in both |-> Max(f1[k], f2[k])])
                 + SumOver(only1, f1) + SumOver(only2, f2)
    IN  IF intersection = 0 THEN Zero ELSE Frac(union, intersection)

\* The general case of JaccardSimilarity: sum of min over sum of max.
WeightedJaccard(f1, f2) ==
    LET both == DOMAIN f1 \cap DOMAIN f2
        only1 == DOMAIN f1 \ DOMAIN f2
        only2 == DOMAIN f2 \ DOMAIN f1
        intersection == SumOver(both, [k \in both |-> Min(f1[k], f2[k])])
        union == SumOver(both, [k \in both |-> Max(f1[k], f2[k])])
                 + SumOver(only1, f1) + SumOver(only2, f2)
    IN  IF union = 0 THEN Zero ELSE Frac(intersection, union)

\* Variant: without the comparison of the digests.
JaccardSimilarity_NoFastPath(v1, v2) ==
    IF DOMAIN v1.Features = {} \/ DOMAIN v2.Features = {} THEN Zero
    ELSE WeightedJaccard(v1.Features, v2.Features)

\* JaccardSimilarity.
JaccardSimilarity(v1, v2) ==
    IF DOMAIN v1.Features = {} \/ DOMAIN v2.Features = {} THEN Zero
    ELSE IF v1.Hash = v2.Hash THEN One
    ELSE WeightedJaccard(v1.Features, v2.Features)

\* Variant: the user agent is digested with the six hardware fields.
ComputeHardwareHash_WithUserAgent(s) ==
    <<s.Canvas2DHash, s.AudioHash, s.WebGLVendor, s.WebGLRenderer,
      s.HardwareConcurrency, Fmt0(s.DeviceMemory), s.UserAgent>>

\* Variant: only vendor, CPU count and memory are digested.
ComputeHardwareHash_VendorAndSizes(s) ==
    <<s.WebGLVendor, s.HardwareConcurrency, Fmt0(s.DeviceMemory)>>

\* Variant: the webdriver flag is digested with the six hardware fields.
ComputeHardwareHash_WithWebDriver(s) ==
    <<s.Canvas2DHash, s.AudioHash, s.WebGLVendor, s.WebGLRenderer,
      s.HardwareConcurrency, Fmt0(s.DeviceMemory), s.WebDriver>>

\* Variant: the platform is digested with the six hardware fields.
ComputeHardwareHash_WithPlatform(s) ==
    <<s.Canvas2DHash, s.AudioHash, s.WebGLVendor, s.WebGLRenderer,
      s.HardwareConcurrency, Fmt0(s.DeviceMemory), s.Platform>>

\* ComputeHardwareHash: the digest of the six hardware fields joined by "|".
ComputeHardwareHash(s) ==
    <<s.Canvas2DHash, s.AudioHash, s.WebGLVendor, s.WebGLRenderer,
      s.HardwareConcurrency, Fmt0(s.DeviceMemory)>>

\* Variant: the hardware is impossible when both counts are 0.
detectBot_BothZero(s) ==
    \/ s.WebDriver \/ s.PhantomPresent \/ s.SeleniumPresent \/ s.AutomationPresent
    \/ s.HeadlessChrome
    \/ s.Canvas2DHash = <<>> \/ s.Canvas2DHash = CanvasError
    \/ s.AudioHash = "" \/ s.AudioHash = "error"
    \/ (s.HardwareConcurrency = 0 /\ s.DeviceMemory = 0)
    \/ s.WebGLVendor = "Brian Paul" \/ s.WebGLRenderer = "Google SwiftShader"

\* detectBot.
detectBot(s) ==
    \/ s.WebDriver \/ s.PhantomPresent \/ s.SeleniumPresent \/ s.AutomationPresent
    \/ s.HeadlessChrome
    \/ s.Canvas2DHash = <<>> \/ s.Canvas2DHash = CanvasError
    \/ s.AudioHash = "" \/ s.AudioHash = "error"
    \/ s.HardwareConcurrency = 0 \/ s.DeviceMemory = 0
    \/ s.WebGLVendor = "Brian Paul" \/ s.WebGLRenderer = "Google SwiftShader"

\* --------------------------------------------------------------- validator

HexDigits ==
    {"0", "1", "2", "3", "4", "5", "6", "7", "8", "9",
     "a", "b", "c", "d", "e", "f", "A", "B", "C", "D", "E", "F"}

\* Variant: `^[a-fA-F0-9]{8,}`, no upper bound and no end anchor.
hashRegex_Unanchored(s) ==
    /\ Len(s) >= MinHashLen
    /\ \A i \in 1..MinHashLen : s[i] \in HexDigits

\* hashRegex.MatchString: the whole text is 8 to 128 hex characters.
hashRegex(s) ==
    /\ Len(s) >= MinHashLen
    /\ Len(s) <= MaxHashLen
    /\ \A i \in DOMAIN s : s[i] \in HexDigits

\* validator.ValidateIdentifyRequest: the error map, field by field; the
\* request is rejected when the map is not empty.
ValidateIdentifyRequest(s) ==
    (IF s.Canvas2DHash = <<>>
     THEN {<<"canvas_2d_hash", "required">>}
     ELSE IF s.Canvas2DHash # CanvasError /\ s.Canvas2DHash # CanvasNoContext
          THEN IF ~hashRegex(s.Canvas2DHash)
               THEN {<<"canvas_2d_hash", "invalid format">>}
               ELSE {}
          ELSE {})
    \cup (IF s.AudioHash = "" THEN {<<"audio_hash", "required">>} ELSE {})
    \cup (IF s.HardwareConcurrency < 0 \/ s.HardwareConcurrency > MaxHardwareConcurrency
          THEN {<<"hardware_concurrency", "out of range">>}
          ELSE {})
    \cup (IF Len(s.UserAgent) > MaxUserAgentLen
          THEN {<<"user_agent", "too long">>}
          ELSE {})

\* The control bytes of the texts of the model, newline and tab apart.
ControlBytes == {"\r", "\f"}

\* validator.SanitizeString: NUL and every control byte but newline and tab
\* are left out.
SanitizeString(s) == SelectSeq(s, LAMBDA ch : ch \notin ControlBytes)

\* Variant: the software tier weighs more than the environment tier.
DefaultWeights_HeavySoftware ==
    [Hardware |-> HardwareWeight, Environment |-> EnvironmentWeight,
     Software |-> EnvironmentWeight + 100]

\* similarity.DefaultWeights / the weights NewIdentificationService passes on.
DefaultWeights ==
    [Hardware |-> HardwareWeight, Environment |-> EnvironmentWeight,
     Software |-> SoftwareWeight]

\* ------------------------------------------------------------------- cache

\* The hardware digests of the model's bundles: the hw:<digest> keys.
HwKeys == {ComputeHardwareHash(Signals(b)) : b \in BundleNames}

\* The reply of GET for a key that does not exist (redis.Nil, returned as "").
NoValue == <<>>

\* A value that is no uuid, as a writer other than Identify may leave one.
Junk == <<"junk">>

\* uuid.UUID.String: the text form of a uuid.
UUIDString(id) == <<"uuid", id>>

\* uuid.Parse: the uuid of a text and whether the text is one; the uuid is
\* uuid.Nil when it is not.
UUIDParse(text) ==
    IF Len(text) = 2 /\ text[1] = "uuid"
    THEN [id |-> text[2], ok |-> TRUE]
    ELSE [id |-> NilUUID, ok |-> FALSE]

\* REDIS_CACHE_TTL, configured as two units of time.
CacheTTL == 2

\* A key hw:<hash>: the text stored and its time to live; age is the time
\* since the SET that wrote it (history).  A key that does not exist, and a
\* key as SET writes it with the ttl of the cache.
NoEntry == [val |-> NoValue, ttl |-> 0, age |-> 0]
Entry(text) == [val |-> text, ttl |-> CacheTTL, age |-> 0]

\* Cache.GetVisitorID: the value and whether the call failed.  GET leaves
\* the time to live of the key as it is.
GetVisitorID(c, hardwareHash, fails) ==
    IF fails THEN [val |-> NoValue, err |-> TRUE]
    ELSE [val |-> c[hardwareHash].val, err |-> FALSE]

\* Variant: the SET is not sent.
SetVisitorID_Dropped(c, hardwareHash, visitorID, fails) == c

\* Variant: SET ... NX, which keeps the value of a key that exists.
SetVisitorID_IfAbsent(c, hardwareHash, visitorID, fails) ==
    IF fails \/ c[hardwareHash].val # NoValue THEN c
    ELSE [c EXCEPT ![hardwareHash] = Entry(visitorID)]

\* Variant: SET without an expiration (ttl 0 of a key that exists).
SetVisitorID_NoExpiry(c, hardwareHash, visitorID, fails) ==
    IF fails THEN c
    ELSE [c EXCEPT ![hardwareHash] = [val |-> visitorID, ttl |-> 0, age |-> 0]]

\* Cache.SetVisitorID: SET hw:<hash> <visitorID> with the ttl; the cache is
\* unchanged when the call fails.
SetVisitorID(c, hardwareHash, visitorID, fails) ==
    IF fails THEN c ELSE [c EXCEPT ![hardwareHash] = Entry(visitorID)]

MetricNames ==
    {"cache_hits", "healed_identifications", "new_visitors", "total_identifications"}

\* Cache.IncrementMetric: INCR metric:<name>.
IncrementMetric(m, metric, fails) ==
    IF fails THEN m ELSE [m EXCEPT ![metric] = @ + 1]

\* ------------------------------------------------------------------- store

\* An address is the text c.IP() gives, held as the parts strings.Split(ip, ".")
\* cuts it into: four for an IPv4 address, one for an IPv6 address.
\* The /24 networks requests come from.
Nets == {<<"10", "0", "0">>, <<"10", "0", "1">>}

\* The addresses clients connect from: c.IP().
ClientIPs == {n \o <<"7">> : n \in Nets}

\* Variant: the address is passed on as it came.
AnonymizeIP_Unchanged(ip) == ip

\* middleware.AnonymizeIP: the last of four parts replaced by 0, any other
\* text returned as it is.
AnonymizeIP(ip) == IF Len(ip) = 4 THEN <<ip[1], ip[2], ip[3], "0">> ELSE ip

\* The addresses Identify is called with: the handler anonymizes them.
RequestIPs == {AnonymizeIP(n \o <<"7">>) : n \in Nets}

\* extractIPSubnet: "a.b.c.0/24" for a text of four parts, read by the query
\* as a cidr (network, host part, mask length); any other text as it is.
extractIPSubnet(ip) ==
    IF Len(ip) # 4 THEN ip
    ELSE [net |-> <<ip[1], ip[2], ip[3]>>, host |-> "0", bits |-> QueryMaskLen]

\* The generated column ip_subnet:
\*   host(ip_address)::inet & '255.255.255.0'::inet
\* Both operands are host addresses (/32) and inet & inet keeps the larger
\* mask length, so the stored cidr is a.b.c.0/32.
GeneratedSubnet(ip) ==
    [net |-> <<ip[1], ip[2], ip[3]>>, host |-> "0", bits |-> StoredMaskLen]

\* Variant: a table without the foreign key.
ForeignKeyHolds_Unchecked(vs, visitorID) == TRUE

\* The foreign key of identifications.visitor_id.
ForeignKeyHolds(vs, visitorID) == visitorID \in DOMAIN vs

\* time.Now() and NOW(): the clock is read as the number of rows the two
\* tables hold, plus one, so a later insert bears a later time.
Now(rows, vs) == Len(rows) + Cardinality(DOMAIN vs) + 1

\* Variant: the trigger refreshes updated_at only.
UpdateVisitorTimestamp_TimestampOnly(vs, row, now) ==
    [vs EXCEPT ![row.visitor_id] = [@ EXCEPT !.updated_at = now]]

\* The trigger update_visitor_timestamp, AFTER INSERT ON identifications.
UpdateVisitorTimestamp(vs, row, now) ==
    [vs EXCEPT ![row.visitor_id] =
        [@ EXCEPT !.updated_at = now, !.last_seen_ip = row.ip_address,
                  !.visit_count = @ + 1]]

\* Variant: the insert replaces the rows of the table.
CreateIdentification_Replacing(rows, vs, ident, fails) ==
    IF fails \/ ~ForeignKeyHolds(vs, ident.visitor_id)
    THEN [err |-> TRUE, rows |-> rows, vs |-> vs]
    ELSE LET row == [request_id |-> ident.request_id, visitor_id |-> ident.visitor_id,
                     ip_address |-> ident.ip_address,
                     ip_subnet |-> GeneratedSubnet(ident.ip_address),
                     signals |-> ident.signals,
                     confidence_score |-> ident.confidence_score,
                     created_at |-> ident.created_at,
                     hardware_hash |-> ident.hardware_hash, is_bot |-> ident.is_bot]
         IN  [err |-> FALSE, rows |-> <<row>>,
              vs |-> UpdateVisitorTimestamp(vs, row, Now(rows, vs))]

\* Repository.CreateIdentification: the insert with its generated column, its
\* foreign key and its trigger, as one statement.
CreateIdentification(rows, vs, ident, fails) ==
    IF fails \/ ~ForeignKeyHolds(vs, ident.visitor_id)
    THEN [err |-> TRUE, rows |-> rows, vs |-> vs]
    ELSE LET row == [request_id |-> ident.request_id, visitor_id |-> ident.visitor_id,
                     ip_address |-> ident.ip_address,
                     ip_subnet |-> GeneratedSubnet(ident.ip_address),
                     signals |-> ident.signals,
                     confidence_score |-> ident.confidence_score,
                     created_at |-> ident.created_at,
                     hardware_hash |-> ident.hardware_hash, is_bot |-> ident.is_bot]
         IN  [err |-> FALSE, rows |-> Append(rows, row),
              vs |-> UpdateVisitorTimestamp(vs, row, Now(rows, vs))]

\* Variant: the id is derived from the device, so one device gets one id.
NewVisitorID_OfDevice(vs) == 1

\* uuid.New in CreateVisitor: an id no visitor has.
NewVisitorID(vs) == Cardinality(DOMAIN vs) + 1

\* Variant: a new visitor starts with no visit counted.
CreateVisitor_Unvisited(vs, ipAddress, now, fails) ==
    IF fails THEN [err |-> TRUE, vs |-> vs, id |-> NilUUID]
    ELSE LET id == NewVisitorID(vs) IN
         [err |-> FALSE, id |-> id,
          vs |-> [v \in DOMAIN vs \cup {id} |->
                    IF v = id
                    THEN [updated_at |-> now, first_seen_ip |-> ipAddress,
                          last_seen_ip |-> ipAddress, visit_count |-> 0]
                    ELSE vs[v]]]

\* Repository.CreateVisitor: the insert into visitors.
CreateVisitor(vs, ipAddress, now, fails) ==
    IF fails THEN [err |-> TRUE, vs |-> vs, id |-> NilUUID]
    ELSE LET id == NewVisitorID(vs) IN
         [err |-> FALSE, id |-> id,
          vs |-> [v \in DOMAIN vs \cup {id} |->
                    IF v = id
                    THEN [updated_at |-> now, first_seen_ip |-> ipAddress,
                          last_seen_ip |-> ipAddress, visit_count |-> 1]
                    ELSE vs[v]]]

\* The rows of a sequence of positions, in that order.
RowsAt(rows, positions) == [i \in 1..Len(positions) |-> rows[positions[i]]]

\* The elements of a set of integers in ascending order.
RECURSIVE Ascending(_)
Ascending(S) ==
    IF S = {} THEN <<>>
    ELSE LET m == CHOOSE x \in S : \A y \in S : x <= y
         IN  <<m>> \o Ascending(S \ {m})

\* The query of FindSimilarVisitors:
\*   SELECT DISTINCT ON (visitor_id) * FROM identifications
\*   WHERE ip_subnet = $1::cidr ORDER BY visitor_id, created_at DESC LIMIT $2
\* Of the rows of a visitor the one with the latest created_at is kept.
\* Two cidr values are equal when address and mask length are.
SimilarVisitorsQuery(rows, ipSubnet, limit) ==
    LET matching == {i \in 1..Len(rows) : rows[i].ip_subnet = ipSubnet}
        vids == {rows[i].visitor_id : i \in matching}
        latest(v) == CHOOSE i \in matching :
                        /\ rows[i].visitor_id = v
                        /\ \A j \in matching :
                            rows[j].visitor_id = v => rows[j].created_at <= rows[i].created_at
        ordered == Ascending(vids)
        picked == [k \in 1..Len(ordered) |-> latest(ordered[k])]
    IN  RowsAt(rows, SubSeq(picked, 1, Min(limit, Len(picked))))

\* rows.Scan of FindSimilarVisitors: it is given ScanDests destinations for
\* the TableColumns columns of SELECT *, which fails on the first row.
ScanFails(result) == Len(result) > 0 /\ ScanDests # TableColumns

\* Repository.FindSimilarVisitors.
FindSimilarVisitors(rows, ipSubnet, limit, fails) ==
    LET result == SimilarVisitorsQuery(rows, ipSubnet, limit) IN
    IF fails \/ ScanFails(result)
    THEN [err |-> TRUE, rows |-> <<>>]
    ELSE [err |-> FALSE, rows |-> result]

\* ----------------------------------------------------------------- scoring

\* The feature vector the calculator of Identify, built with DefaultWeights,
\* extracts from each bundle:
\*   s.calculator.ExtractFeatures(req.Signals)
FeatureVectors ==
    [b \in BundleNames |-> ExtractFeatures(Signals(b), DefaultWeights)]

\* The score of an incoming bundle against a candidate's:
\*   s.calculator.JaccardSimilarity(incomingVector, candidateVector)
Scores ==
    [b1 \in BundleNames, b2 \in BundleNames |->
        JaccardSimilarity(FeatureVectors[b1], FeatureVectors[b2])]

\* The loop of Identify over the candidates from position i on: the best
\* score so far and the position of the candidate holding it (0: none).
\* bestMatch = &candidate points at the candidate of its own iteration: the
\* stack is Go 1.25, where each iteration has its own loop variable.
RECURSIVE ScanCandidates(_, _, _, _, _)
ScanCandidates(incoming, candidates, i, bestScore, bestMatch) ==
    IF i > Len(candidates) THEN [score |-> bestScore, match |-> bestMatch]
    ELSE LET score == Scores[incoming, candidates[i].signals]
         IN  IF Less(bestScore, score)
             THEN ScanCandidates(incoming, candidates, i + 1, score, i)
             ELSE ScanCandidates(incoming, candidates, i + 1, bestScore, bestMatch)

BestMatch(incoming, candidates) == ScanCandidates(incoming, candidates, 1, Zero, 0)

\* Variant: the score has to exceed the threshold.
Heals_Strict(best, thr) == Less(<<thr, 1000>>, best.score) /\ best.match # 0

\* The test of Identify that chooses the heal branch:
\*   bestScore >= s.config.SimilarityThreshold && bestMatch != nil
Heals(best, thr) == LessEq(<<thr, 1000>>, best.score) /\ best.match # 0

\* ------------------------------------------------------------------- state

VARIABLES
    cache,        \* hw:<digest> -> the text stored (NoValue when absent) and its ttl
    metrics,      \* metric:<name> -> counter
    visitors,     \* table visitors: visitor_id -> row
    idents,       \* table identifications, in insertion order
    threshold,    \* config.SimilarityThreshold, in thousandths
    regime,       \* the kinds of call that can fail, and whether they are counted
    pc,           \* where each Identify call stands
    req,          \* its models.IdentifyRequest, and whether it arrived alone
    probed,       \* cachedVisitorID, as GetVisitorID returned it
    cands,        \* candidates, as FindSimilarVisitors returned them
    visitorID,    \* visitorUUID / visitorID
    confidence,   \* confidence
    isNew,        \* isNew
    path,         \* the branch taken: "hit", "heal", "create" ("none" before)
    faults,       \* history: the number of counted failures so far
    failed,       \* history: the kinds of call that failed in this request
    lastWrite,    \* history: the value of the last SET of each hw:<digest>
    lastAtProbe,  \* history: lastWrite of its key when its probe read the cache
    limits,       \* rl:ip:<address> -> counter and time to live; its age (history)
    origin,       \* the cache and the store a run is repeated from
    arg,          \* the input a function is applied to on its own
    result,       \* what it returned
    retry         \* the locals of a call of WithRetry and the calls it made (history)

\* The state Identify neither reads nor writes.
outside == <<limits, origin, arg, result, retry>>

vars == <<cache, metrics, visitors, idents, threshold, regime, pc, req, probed,
          cands, visitorID, confidence, isNew, path, faults, failed, lastWrite,
          lastAtProbe, outside>>

Reqs == 1..MaxReq

\* The bundles requests carry in SpecSeq.
RequestBundles == {"A", "A2", "B"}

NoRequest == [signals |-> "A", ip |-> <<"10", "0", "0", "0">>, alone |-> FALSE]

InFlight ==
    {q \in Reqs : pc[q] \notin {"idle", "done", "failed", "limited", "rejected", "ok"}}
Returned == {q \in Reqs : pc[q] \in {"done", "failed"}}

hardwareHash(r) == ComputeHardwareHash(Signals(req[r].signals))

\* The models.Identification Identify builds for request r.
Ident(r) ==
    [request_id |-> r, visitor_id |-> visitorID[r], ip_address |-> req[r].ip,
     signals |-> req[r].signals, confidence_score |-> confidence[r],
     created_at |-> Now(idents, visitors),
     hardware_hash |-> hardwareHash(r), is_bot |-> detectBot(Signals(req[r].signals))]

\* The models.IdentifyResponse of a request that returned one.
Response(r) ==
    [VisitorID |-> visitorID[r], Confidence |-> confidence[r],
     IsNew |-> isNew[r], RequestID |-> r]

\* The kinds of call Identify makes on the cache: GET, SET and INCR; and the
\* kinds of call a request makes in all, with the statements of the repository
\* and the rate limiter's pipeline.
CacheKinds == {"get", "set", "metric"}
CallKinds == CacheKinds \cup {"store", "limit"}

\* Any call can fail, MaxFaults times in all.
Counted == [kinds |-> CallKinds, bounded |-> TRUE]

\* The cache can fail at every call, the store works.
CacheDown == [kinds |-> CacheKinds, bounded |-> FALSE]

InitLocals ==
    /\ pc = [r \in Reqs |-> "idle"]
    /\ req = [r \in Reqs |-> NoRequest]
    /\ probed = [r \in Reqs |-> NoValue]
    /\ cands = [r \in Reqs |-> <<>>]
    /\ visitorID = [r \in Reqs |-> NilUUID]
    /\ confidence = [r \in Reqs |-> Zero]
    /\ isNew = [r \in Reqs |-> FALSE]
    /\ path = [r \in Reqs |-> "none"]
    /\ faults = 0
    /\ failed = [r \in Reqs |-> {}]
    /\ lastAtProbe = [r \in Reqs |-> NoValue]

\* No request has passed the rate limiter, no run is repeated and no
\* function is applied on its own.
NoKey == [count |-> 0, ttl |-> 0, age |-> 0]
NoLimits == [ip \in ClientIPs |-> NoKey]
OutsideUnused ==
    /\ limits = NoLimits
    /\ origin = NoValue
    /\ arg = NoValue
    /\ result = NoValue
    /\ retry = NoValue

\* An empty cache and an empty store, the default threshold, no request yet.
EmptyService ==
    /\ cache = [h \in HwKeys |-> NoEntry]
    /\ metrics = [m \in MetricNames |-> 0]
    /\ visitors = <<>>
    /\ idents = <<>>
    /\ threshold = DefaultThreshold
    /\ lastWrite = [h \in HwKeys |-> NoValue]
    /\ InitLocals

Empty == OutsideUnused /\ EmptyService

Init == Empty /\ regime = Counted

\* A function is about to be applied on its own to an input of the set S.
InitApply(S) ==
    /\ EmptyService
    /\ regime = Counted
    /\ limits = NoLimits
    /\ origin = NoValue
    /\ arg \in S
    /\ result = NoValue
    /\ retry = NoValue

\* The calls of kinds ks fail in request r (history).
Fault(r, ks) ==
    /\ ks \subseteq regime.kinds
    /\ regime.bounded => faults + Cardinality(ks) <= MaxFaults
    /\ faults' = IF regime.bounded THEN faults + Cardinality(ks) ELSE faults
    /\ failed' = [failed EXCEPT ![r] = @ \cup ks]

\* ---------------------------------------------------------------- Identify

\* Variant: an error of the probe ends the call.
ProbeNext_ErrorFails(got) ==
    IF got.err THEN "failed"
    ELSE IF got.val # NoValue THEN "persistHit" ELSE "fetch"

\* Where Identify goes after the cache probe:
\*   if err == nil && cachedVisitorID != "" { ...cache hit... }
ProbeNext(got) ==
    IF ~got.err /\ got.val # NoValue THEN "persistHit" ELSE "fetch"

\* A call of Identify arrives with bundle b from address ip.  Step 1:
\* GetVisitorID, and uuid.Parse of a hit with its error dropped.
Probe(r, b, ip, fails) ==
    /\ pc[r] = "idle"
    /\ IF r = 1 THEN TRUE ELSE pc[r - 1] # "idle"
    /\ req' = [req EXCEPT ![r] = [signals |-> b, ip |-> ip, alone |-> InFlight = {}]]
    /\ LET hash == ComputeHardwareHash(Signals(b))
           got == GetVisitorID(cache, hash, fails)
           next == ProbeNext(got)
       IN  /\ pc' = [pc EXCEPT ![r] = next]
           /\ probed' = [probed EXCEPT ![r] = got.val]
           /\ IF next = "persistHit"
              THEN /\ visitorID' = [visitorID EXCEPT ![r] = UUIDParse(got.val).id]
                   /\ confidence' = [confidence EXCEPT ![r] = One]
                   /\ path' = [path EXCEPT ![r] = "hit"]
              ELSE UNCHANGED <<visitorID, confidence, path>>
           /\ lastAtProbe' = [lastAtProbe EXCEPT ![r] =
                                 IF fails THEN NoValue ELSE lastWrite[hash]]
    /\ Fault(r, IF fails THEN {"get"} ELSE {})
    /\ UNCHANGED <<outside, cache, metrics, visitors, idents, threshold, regime, cands,
                   isNew, lastWrite>>

\* CreateIdentification of request r and, when it succeeds, the metric
\* increment that follows it on the hit path (none on the miss path).
SaveIdentification(r, fails, metric, metricFails) ==
    LET out == CreateIdentification(idents, visitors, Ident(r), fails) IN
    /\ idents' = out.rows
    /\ visitors' = out.vs
    /\ pc' = [pc EXCEPT ![r] = IF out.err THEN "failed" ELSE "done"]
    /\ metrics' = IF out.err \/ metric = "" THEN metrics
                  ELSE IncrementMetric(metrics, metric, metricFails)
    /\ metricFails => ~out.err /\ metric # ""
    /\ Fault(r, (IF fails THEN {"store"} ELSE {}) \cup (IF metricFails THEN {"metric"} ELSE {}))

\* The cache hit: the identification is stored, cache_hits counted and the
\* response returned.
PersistHit(r, fails, metricFails) ==
    /\ pc[r] = "persistHit"
    /\ SaveIdentification(r, fails, "cache_hits", metricFails)
    /\ UNCHANGED <<outside, cache, threshold, regime, req, probed, cands, visitorID,
                   confidence, isNew, path, lastWrite, lastAtProbe>>

\* Steps 5 and 6 for request r and the candidates it was given: the scoring
\* loop and the choice between heal and create.
DecideWith(r, candidates) ==
    LET best == BestMatch(req[r].signals, candidates) IN
    IF Heals(best, threshold)
    THEN /\ visitorID' = [visitorID EXCEPT ![r] = candidates[best.match].visitor_id]
         /\ confidence' = [confidence EXCEPT ![r] = best.score]
         /\ isNew' = [isNew EXCEPT ![r] = FALSE]
         /\ path' = [path EXCEPT ![r] = "heal"]
         /\ pc' = [pc EXCEPT ![r] = "cachePut"]
    ELSE /\ path' = [path EXCEPT ![r] = "create"]
         /\ pc' = [pc EXCEPT ![r] = "createVisitor"]
         /\ UNCHANGED <<visitorID, confidence, isNew>>

\* Steps 2 to 6: the candidates of the request's subnet are fetched, scored
\* and decided on; Identify runs on to CreateVisitor or to the write-through.
Fetch(r, fails) ==
    /\ pc[r] = "fetch"
    /\ LET out == FindSimilarVisitors(idents, extractIPSubnet(req[r].ip),
                                      CandidateLimit, fails)
       IN  /\ cands' = [cands EXCEPT ![r] = out.rows]
           /\ IF out.err
              THEN /\ pc' = [pc EXCEPT ![r] = "failed"]
                   /\ UNCHANGED <<visitorID, confidence, isNew, path>>
              ELSE DecideWith(r, out.rows)
    /\ Fault(r, IF fails THEN {"store"} ELSE {})
    /\ UNCHANGED <<outside, cache, metrics, visitors, idents, threshold, regime, req,
                   probed, lastWrite, lastAtProbe>>

\* Steps 5 and 6 alone, for a request that holds its candidates.
Decide(r) ==
    /\ pc[r] = "decide"
    /\ DecideWith(r, cands[r])
    /\ UNCHANGED <<outside, cache, metrics, visitors, idents, threshold, regime, req,
                   probed, cands, faults, failed, lastWrite, lastAtProbe>>

\* Variant: the error of CreateVisitor is dropped.
AfterCreateVisitor_Continue(err) == "cachePut"

\* Where Identify goes after CreateVisitor:
\*   if err != nil { return nil, ... }
AfterCreateVisitor(err) == IF err THEN "failed" ELSE "cachePut"

\* The create branch: the visitor is inserted.
NewVisitor(r, fails) ==
    /\ pc[r] = "createVisitor"
    /\ LET out == CreateVisitor(visitors, req[r].ip, Now(idents, visitors), fails) IN
       /\ visitors' = out.vs
       /\ IF out.err
          THEN UNCHANGED <<visitorID, confidence, isNew>>
          ELSE /\ visitorID' = [visitorID EXCEPT ![r] = out.id]
               /\ confidence' = [confidence EXCEPT ![r] = One]
               /\ isNew' = [isNew EXCEPT ![r] = TRUE]
       /\ pc' = [pc EXCEPT ![r] = AfterCreateVisitor(out.err)]
       /\ Fault(r, IF fails THEN {"store"} ELSE {})
    /\ UNCHANGED <<outside, cache, metrics, idents, threshold, regime, req, probed, cands,
                   path, lastWrite, lastAtProbe>>

\* Both branches: the write-through and the count of healed_identifications
\* or new_visitors, the errors of both dropped.
CachePut(r, fails, metricFails) ==
    /\ pc[r] = "cachePut"
    /\ cache' = SetVisitorID(cache, hardwareHash(r), UUIDString(visitorID[r]), fails)
    /\ lastWrite' = IF fails THEN lastWrite
                    ELSE [lastWrite EXCEPT ![hardwareHash(r)] = UUIDString(visitorID[r])]
    /\ metrics' = IncrementMetric(metrics,
                      IF path[r] = "heal" THEN "healed_identifications" ELSE "new_visitors",
                      metricFails)
    /\ pc' = [pc EXCEPT ![r] = "persist"]
    /\ Fault(r, (IF fails THEN {"set"} ELSE {}) \cup (IF metricFails THEN {"metric"} ELSE {}))
    /\ UNCHANGED <<outside, visitors, idents, threshold, regime, req, probed, cands,
                   visitorID, confidence, isNew, path, lastAtProbe>>

\* Step 7: the identification is stored and the response returned.
Persist(r, fails) ==
    /\ pc[r] = "persist"
    /\ SaveIdentification(r, fails, "", FALSE)
    /\ UNCHANGED <<outside, cache, threshold, regime, req, probed, cands, visitorID,
                   confidence, isNew, path, lastWrite, lastAtProbe>>

\* One step of an Identify call that has arrived.
Step ==
    \/ \E r \in Reqs, fails \in BOOLEAN, metricFails \in BOOLEAN :
        PersistHit(r, fails, metricFails)
    \/ \E r \in Reqs, fails \in BOOLEAN : Fetch(r, fails)
    \/ \E r \in Reqs, fails \in BOOLEAN : NewVisitor(r, fails)
    \/ \E r \in Reqs, fails \in BOOLEAN, metricFails \in BOOLEAN :
        CachePut(r, fails, metricFails)
    \/ \E r \in Reqs, fails \in BOOLEAN : Persist(r, fails)

\* ----------------------------------------------------------------- handler

\* RATE_LIMIT_REQUESTS, configured as low as two requests a window, and
\* RATE_LIMIT_WINDOW, configured as two seconds.
RateLimitRequests == 2
RateLimitWindow == 2

\* RATE_LIMIT_BY_HARDWARE, configured as two requests a window.  No route
\* carries RateLimiter.LimitByHardwareHash, so nothing reads it.
RateLimitByHardware == 2

\* Variant: the count before the increment is compared with the limit.
CheckRateLimit_CountBefore(ls, identifier, limit, window, fails) ==
    IF fails THEN [allowed |-> FALSE, err |-> TRUE, limits |-> ls]
    ELSE [allowed |-> ls[identifier].count <= limit, err |-> FALSE,
          limits |-> [ls EXCEPT ![identifier].count = @ + 1,
                                ![identifier].ttl = window]]

\* Variant: the error of the pipeline is swallowed and the request refused.
CheckRateLimit_ErrorRefuses(ls, identifier, limit, window, fails) ==
    IF fails THEN [allowed |-> FALSE, err |-> FALSE, limits |-> ls]
    ELSE LET count == ls[identifier].count + 1 IN
         [allowed |-> count <= limit, err |-> FALSE,
          limits |-> [ls EXCEPT ![identifier].count = count,
                                ![identifier].ttl = window]]

\* Cache.CheckRateLimit: INCR rl:<identifier> and EXPIRE rl:<identifier>
\* window in one pipeline; the request is allowed when the count after the
\* increment is within the limit.  INCR creates a missing key at 1 and leaves
\* the time to live of an existing key alone; EXPIRE sets it to the window.
CheckRateLimit(ls, identifier, limit, window, fails) ==
    IF fails THEN [allowed |-> FALSE, err |-> TRUE, limits |-> ls]
    ELSE LET count == ls[identifier].count + 1 IN
         [allowed |-> count <= limit, err |-> FALSE,
          limits |-> [ls EXCEPT ![identifier].count = count,
                                ![identifier].ttl = window]]

\* The answer of the rate limiter to a request over the limit.
TooManyRequests == [status |-> 429, retry_after |-> RateLimitWindow]

\* The requests the server is handling.
Handling ==
    InFlight \cup {q \in Reqs : pc[q] = "done" \/ (pc[q] = "idle" /\ req[q] # NoRequest)}

\* POST /v1/identify arrives with bundle b from address ip, when no other
\* request is being handled.  RateLimiter.LimitByIP: the counter of the
\* address is incremented; over the limit the answer is 429, and on a cache
\* error the request passes.
LimitByIP(r, b, ip, fails) ==
    /\ pc[r] = "idle" /\ req[r] = NoRequest
    /\ IF r = 1 THEN TRUE ELSE req[r - 1] # NoRequest
    /\ Handling = {}
    /\ LET got == CheckRateLimit(limits, ip, RateLimitRequests, RateLimitWindow, fails)
           stop == ~got.err /\ ~got.allowed IN
        /\ limits' = got.limits
        /\ pc' = [pc EXCEPT ![r] = IF stop THEN "limited" ELSE "validate"]
        /\ result' = IF stop THEN TooManyRequests ELSE result
    /\ req' = [req EXCEPT ![r] = [signals |-> b, ip |-> ip, alone |-> TRUE]]
    /\ Fault(r, IF fails THEN {"limit"} ELSE {})
    /\ UNCHANGED <<cache, metrics, visitors, idents, threshold, regime, probed, cands,
                   visitorID, confidence, isNew, path, lastWrite, lastAtProbe,
                   origin, arg, retry>>

\* Variant: the handler goes on to Identify whatever the validator said.
AfterValidate_Continue(errors) == "idle"

\* Where Handler.Identify goes after the validator: 400 on an error, else on
\* to IdentificationService.Identify.
AfterValidate(errors) == IF errors # {} THEN "rejected" ELSE "idle"

\* Handler.Identify up to the call of the service: the validator, and the
\* address anonymized for the service.
HandlerValidate(r) ==
    /\ pc[r] = "validate"
    /\ LET next == AfterValidate(ValidateIdentifyRequest(Signals(req[r].signals))) IN
        /\ pc' = [pc EXCEPT ![r] = next]
        /\ req' = IF next = "idle" THEN [req EXCEPT ![r].ip = AnonymizeIP(@)] ELSE req
    /\ UNCHANGED <<outside, cache, metrics, visitors, idents, threshold, regime, probed,
                   cands, visitorID, confidence, isNew, path, faults, failed,
                   lastWrite, lastAtProbe>>

\* Handler.Identify after the service returned a response:
\* total_identifications is counted and the answer is 200.
Respond(r, metricFails) ==
    /\ pc[r] = "done"
    /\ metrics' = IncrementMetric(metrics, "total_identifications", metricFails)
    /\ pc' = [pc EXCEPT ![r] = "ok"]
    /\ Fault(r, IF metricFails THEN {"metric"} ELSE {})
    /\ UNCHANGED <<outside, cache, visitors, idents, threshold, regime, req, probed,
                   cands, visitorID, confidence, isNew, path, lastWrite, lastAtProbe>>

\* Cache.GetMetric: the counter metric:<name>, 0 when the key is missing; the
\* handler drops the error of a failed read and keeps the 0 returned with it.
GetMetric(m, metric, fails) == IF fails THEN 0 ELSE m[metric]

\* Variant: the ratio is not scaled to a percentage.
calculateRate_Fraction(numerator, denominator) ==
    IF denominator = 0 THEN Zero ELSE Frac(numerator, denominator)

\* calculateRate: 0 for a zero denominator, else the ratio times 100.
calculateRate(numerator, denominator) ==
    IF denominator = 0 THEN Zero
    ELSE LET ratio == Frac(numerator, denominator) IN Frac(ratio[1] * 100, ratio[2])

\* Handler.Metrics, GET /metrics: the four counters are read one by one, the
\* reads named in fails failing, and answered with the hit rate.
Metrics(fails) ==
    /\ LET totalIdents == GetMetric(metrics, "total_identifications",
                                    "total_identifications" \in fails)
           newVisitors == GetMetric(metrics, "new_visitors", "new_visitors" \in fails)
           healedIdents == GetMetric(metrics, "healed_identifications",
                                     "healed_identifications" \in fails)
           cacheHits == GetMetric(metrics, "cache_hits", "cache_hits" \in fails) IN
        result' = [status |-> 200,
                   total_identifications |-> totalIdents,
                   new_visitors |-> newVisitors,
                   healed_identifications |-> healedIdents,
                   cache_hits |-> cacheHits,
                   cache_hit_rate |-> calculateRate(cacheHits, totalIdents)]
    /\ UNCHANGED <<cache, metrics, visitors, idents, threshold, regime, pc, req, probed,
                   cands, visitorID, confidence, isNew, path, faults, failed,
                   lastWrite, lastAtProbe, limits, origin, arg, retry>>

\* ---------------------------------------------------------- specifications

\* The bundle and the address of the requests of Spec.
ConcurrentBundles == {"A"}
ConcurrentIPs == {AnonymizeIP(<<"10", "0", "0", "7">>)}

Next ==
    \/ \E r \in Reqs, b \in ConcurrentBundles, ip \in ConcurrentIPs, fails \in BOOLEAN :
        Probe(r, b, ip, fails)
    \/ Step

\* Concurrent Identify calls over one cache and one store, starting empty;
\* cache and store calls may fail.
Spec == Init /\ [][Next]_vars

\* A call arrives when no other call is running.
ProbeAlone(r, b, ip, fails) == InFlight = {} /\ Probe(r, b, ip, fails)

NextSeq ==
    \/ \E r \in Reqs, b \in RequestBundles, ip \in RequestIPs, fails \in BOOLEAN :
        ProbeAlone(r, b, ip, fails)
    \/ Step

\* Identify calls one after the other, starting empty.
SpecSeq == Init /\ [][NextSeq]_vars

\* The bundles of the requests of SpecCache.
CacheBundles == {"A", "B"}

InitCache == Empty /\ regime = CacheDown

NextCache ==
    \/ \E r \in Reqs, b \in CacheBundles, ip \in ConcurrentIPs, fails \in BOOLEAN :
        ProbeAlone(r, b, ip, fails)
    \/ Step

\* Identify calls one after the other over a store that works and a cache
\* of which any call may fail.
SpecCache == InitCache /\ [][NextCache]_vars

\* A writer other than Identify leaves a value that is no uuid under a key.
ForeignWrite(h) ==
    /\ faults < MaxFaults
    /\ faults' = faults + 1
    /\ cache' = [cache EXCEPT ![h] = Entry(Junk)]
    /\ lastWrite' = [lastWrite EXCEPT ![h] = Junk]
    /\ UNCHANGED <<outside, metrics, visitors, idents, threshold, regime, pc, req, probed,
                   cands, visitorID, confidence, isNew, path, failed, lastAtProbe>>

NextForeign ==
    \/ Next
    \/ \E b \in ConcurrentBundles : ForeignWrite(ComputeHardwareHash(Signals(b)))

\* Spec with a cache that other writers change as well.
SpecForeign == Init /\ [][NextForeign]_vars

\* The rows of n stored identifications, of visitors 1..n in that order, with
\* the bundles bs, all of address ip; and the visitors they belong to.
StoredRows(n, bs, ip) ==
    [i \in 1..n |->
        [request_id |-> MaxReq + i, visitor_id |-> i, ip_address |-> ip,
         ip_subnet |-> GeneratedSubnet(ip), signals |-> bs[i],
         confidence_score |-> One, created_at |-> i,
         hardware_hash |-> ComputeHardwareHash(Signals(bs[i])),
         is_bot |-> detectBot(Signals(bs[i]))]]

StoredVisitors(n, ip) ==
    [v \in 1..n |-> [updated_at |-> v, first_seen_ip |-> ip, last_seen_ip |-> ip,
                     visit_count |-> 2]]

\* The thresholds SpecDecide configures.
Thresholds == {0, 500, DefaultThreshold, 1000}

\* Request 1 stands before the scoring loop with a candidate list of stored
\* identifications, one per visitor, under some threshold.
InitDecide ==
    \E n \in 0..MaxCands, b \in {"A", "Z"}, ip \in RequestIPs, t \in Thresholds :
    \E bs \in [1..n -> StoredBundles] :
        /\ OutsideUnused
        /\ cache = [h \in HwKeys |-> NoEntry]
        /\ metrics = [m \in MetricNames |-> 0]
        /\ visitors = StoredVisitors(n, ip)
        /\ idents = StoredRows(n, bs, ip)
        /\ threshold = t
        /\ regime = Counted
        /\ lastWrite = [h \in HwKeys |-> NoValue]
        /\ pc = [r \in Reqs |-> IF r = 1 THEN "decide" ELSE "idle"]
        /\ req = [r \in Reqs |-> IF r = 1 THEN [signals |-> b, ip |-> ip, alone |-> TRUE]
                                 ELSE NoRequest]
        /\ probed = [r \in Reqs |-> NoValue]
        /\ cands = [r \in Reqs |-> IF r = 1 THEN StoredRows(n, bs, ip) ELSE <<>>]
        /\ visitorID = [r \in Reqs |-> NilUUID]
        /\ confidence = [r \in Reqs |-> Zero]
        /\ isNew = [r \in Reqs |-> FALSE]
        /\ path = [r \in Reqs |-> "none"]
        /\ faults = 0
        /\ failed = [r \in Reqs |-> {}]
        /\ lastAtProbe = [r \in Reqs |-> NoValue]

\* One step of Identify from the scoring loop on.
NextDecide ==
    \/ \E r \in Reqs : Decide(r)
    \/ \E r \in Reqs, fails \in BOOLEAN : NewVisitor(r, fails)
    \/ \E r \in Reqs, fails \in BOOLEAN, metricFails \in BOOLEAN :
        CachePut(r, fails, metricFails)
    \/ \E r \in Reqs, fails \in BOOLEAN : Persist(r, fails)

\* The scoring loop, the decision and what follows it, for every candidate
\* list and threshold of the bounds.
SpecDecide == InitDecide /\ [][NextDecide]_vars

\* A later call arrives alone with the bundle and the address of request 1.
ProbeAgain(r, fails) ==
    /\ r # 1
    /\ ProbeAlone(r, req[1].signals, req[1].ip, fails)

NextRepeat ==
    \/ NextDecide
    \/ \E r \in Reqs, fails \in BOOLEAN : ProbeAgain(r, fails)
    \/ \E r \in Reqs, fails \in BOOLEAN, metricFails \in BOOLEAN :
        PersistHit(r, fails, metricFails)
    \/ \E r \in Reqs, fails \in BOOLEAN : Fetch(r, fails)

\* SpecDecide followed by further calls with the bundle of request 1, one
\* after the other: the three branches of Identify under every threshold.
SpecRepeat == InitDecide /\ [][NextRepeat]_vars

\* The state of the Identify calls, their cache and their store.
service == <<cache, metrics, visitors, idents, threshold, regime, pc, req, probed,
             cands, visitorID, confidence, isNew, path, faults, failed, lastWrite,
             lastAtProbe>>

\* The bundles the validator is applied to.  Their canvas digests are the
\* sentinels and texts at and around every limit of the expression, their CPU
\* counts and user agents lie at and around the limits.
ValidatorSamples ==
    LET HexText(n) == [i \in 1..n |-> IF i % 2 = 0 THEN "F" ELSE "3"]
        CanvasSamples ==
            {<<>>, CanvasError, CanvasNoContext, <<"E", "R", "R", "O", "R">>,
             HexText(MinHashLen - 1), HexText(MinHashLen), HexText(MaxHashLen),
             HexText(MaxHashLen + 1),
             [HexText(MinHashLen) EXCEPT ![MinHashLen] = "g"],
             Append(HexText(MinHashLen), "\n"),
             <<" ">> \o HexText(MinHashLen)}
        AudioSamples == {"", "error", "89efcdab"}
        ConcurrencySamples ==
            {0 - 1, 0, MaxHardwareConcurrency, MaxHardwareConcurrency + 1}
        UserAgentSamples ==
            {<<>>, UAChrome120, [i \in 1..MaxUserAgentLen |-> "a"],
             [i \in 1..(MaxUserAgentLen + 1) |-> "a"]}
    IN  {[SigZ EXCEPT !.Canvas2DHash = c, !.AudioHash = a,
                      !.HardwareConcurrency = n, !.UserAgent = u] :
            c \in CanvasSamples, a \in AudioSamples, n \in ConcurrencySamples,
            u \in UserAgentSamples}

\* ValidateIdentifyRequest is applied to the bundle.
Validate ==
    /\ result = NoValue
    /\ result' = <<ValidateIdentifyRequest(arg)>>
    /\ UNCHANGED <<service, limits, origin, arg, retry>>

\* The validator applied to a bundle.
SpecValidate == InitApply(ValidatorSamples) /\ [][Validate]_vars

\* Two bundles differ in nothing but the automation flags detectBot reads.
SameButFlags(s1, s2) ==
    \A f \in DOMAIN s1 \ {"WebDriver", "PhantomPresent", "SeleniumPresent",
                           "AutomationPresent", "HeadlessChrome"} :
        s1[f] = s2[f]

\* No call fails.
Reliable == [kinds |-> {}, bounded |-> TRUE]

\* Request 1 stands before Identify, or before its scoring loop with the
\* stored identifications as candidates, over a cache that may hold a visitor
\* under its key; origin keeps that cache and store.
InitTwin ==
    \E n \in 0..MaxCands, b \in {"A"}, t \in Thresholds, start \in {"idle", "decide"} :
    \E cached \in 0..(IF start = "idle" THEN n ELSE 0), bs \in [1..n -> {"A", "W", "Z"}] :
    LET ip == AnonymizeIP(<<"10", "0", "0", "7">>)
        held == [h \in HwKeys |->
                   IF cached # 0 /\ h = ComputeHardwareHash(Signals(b))
                   THEN UUIDString(cached) ELSE NoValue]
        entries == [h \in HwKeys |->
                      IF held[h] = NoValue THEN NoEntry ELSE Entry(held[h])]
    IN  /\ cache = entries
        /\ metrics = [m \in MetricNames |-> 0]
        /\ visitors = StoredVisitors(n, ip)
        /\ idents = StoredRows(n, bs, ip)
        /\ threshold = t
        /\ regime = Reliable
        /\ lastWrite = held
        /\ limits = NoLimits
        /\ origin = [cache |-> entries, metrics |-> [m \in MetricNames |-> 0],
                     visitors |-> StoredVisitors(n, ip),
                     idents |-> StoredRows(n, bs, ip), start |-> start]
        /\ arg = NoValue
        /\ result = NoValue
        /\ retry = NoValue
        /\ pc = [r \in Reqs |-> IF r = 1 THEN start ELSE "idle"]
        /\ req = [r \in Reqs |-> IF r = 1 THEN [signals |-> b, ip |-> ip, alone |-> TRUE]
                                 ELSE NoRequest]
        /\ probed = [r \in Reqs |-> NoValue]
        /\ cands = [r \in Reqs |-> IF r = 1 /\ start = "decide"
                                   THEN StoredRows(n, bs, ip) ELSE <<>>]
        /\ visitorID = [r \in Reqs |-> NilUUID]
        /\ confidence = [r \in Reqs |-> Zero]
        /\ isNew = [r \in Reqs |-> FALSE]
        /\ path = [r \in Reqs |-> "none"]
        /\ faults = 0
        /\ failed = [r \in Reqs |-> {}]
        /\ lastAtProbe = [r \in Reqs |-> NoValue]

\* The call of Identify with the request r holds.
ProbeGiven(r, fails) ==
    /\ req[r] # NoRequest
    /\ Probe(r, req[r].signals, req[r].ip, fails)

\* The cache and the store are put back as they were when request 1 arrived,
\* and request r stands where request 1 stood, with a bundle b that differs
\* from the bundle of request 1 in automation flags only.
Repeat(r, b) ==
    /\ r # 1
    /\ pc[r] = "idle" /\ req[r] = NoRequest
    /\ IF r = 1 THEN FALSE ELSE pc[r - 1] = "done"
    /\ SameButFlags(Signals(b), Signals(req[1].signals))
    /\ cache' = origin.cache
    /\ lastWrite' = [h \in HwKeys |-> origin.cache[h].val]
    /\ metrics' = origin.metrics
    /\ visitors' = origin.visitors
    /\ idents' = origin.idents
    /\ req' = [req EXCEPT ![r] = [signals |-> b, ip |-> req[1].ip, alone |-> TRUE]]
    /\ pc' = [pc EXCEPT ![r] = origin.start]
    /\ cands' = [cands EXCEPT ![r] = IF origin.start = "decide" THEN origin.idents
                                     ELSE <<>>]
    /\ UNCHANGED <<outside, threshold, regime, probed, visitorID, confidence, isNew,
                   path, faults, failed, lastAtProbe>>

NextTwin ==
    \/ \E r \in Reqs, fails \in BOOLEAN : ProbeGiven(r, fails)
    \/ \E r \in Reqs : Decide(r)
    \/ Step
    \/ \E r \in Reqs, b \in BundleNames : Repeat(r, b)

\* Identify run again and again from one state of the cache and the store,
\* each time with a bundle that differs from the first in automation flags
\* only; no call fails.
SpecTwin == InitTwin /\ [][NextTwin]_vars

\* The requests of SpecHandler carry a bundle the validator accepts (Z), one
\* it refuses (A) or one it accepts with control bytes in a text (C).
NextHandler ==
    \/ \E r \in Reqs, b \in {"Z", "A", "C"}, ip \in ClientIPs, fails \in BOOLEAN :
        LimitByIP(r, b, ip, fails)
    \/ \E r \in Reqs : HandlerValidate(r)
    \/ \E r \in Reqs, fails \in BOOLEAN : ProbeGiven(r, fails)
    \/ Step
    \/ \E r \in Reqs, metricFails \in BOOLEAN : Respond(r, metricFails)

\* POST /v1/identify, one request after the other: the rate limiter, the
\* handler and the service, starting empty; cache and store calls may fail.
SpecHandler == Init /\ [][NextHandler]_vars

NextMetrics ==
    \/ \E r \in Reqs, ip \in ClientIPs, fails \in BOOLEAN : LimitByIP(r, "Z", ip, fails)
    \/ \E r \in Reqs : HandlerValidate(r)
    \/ \E r \in Reqs, fails \in BOOLEAN : ProbeGiven(r, fails)
    \/ Step
    \/ \E r \in Reqs, metricFails \in BOOLEAN : Respond(r, metricFails)
    \/ \E fails \in SUBSET MetricNames : Metrics(fails)

\* POST /v1/identify with one valid bundle, one request after the other, and
\* GET /metrics at any time; cache and store calls may fail.
SpecMetrics == Init /\ [][NextMetrics]_vars

\* A unit of time passes: every hw: key comes one unit closer to its
\* expiration and is deleted by Redis when it reaches it; a key without a
\* time to live stays.
Elapse ==
    /\ \E h \in HwKeys : cache[h].ttl > 0
    /\ cache' = [h \in HwKeys |->
                   IF cache[h].ttl = 0 THEN cache[h]
                   ELSE IF cache[h].ttl = 1 THEN NoEntry
                   ELSE [cache[h] EXCEPT !.ttl = @ - 1, !.age = @ + 1]]
    /\ UNCHANGED <<outside, metrics, visitors, idents, threshold, regime, pc, req, probed,
                   cands, visitorID, confidence, isNew, path, faults, failed,
                   lastWrite, lastAtProbe>>

NextExpiry ==
    \/ \E r \in Reqs, ip \in ConcurrentIPs, fails \in BOOLEAN : ProbeAlone(r, "A", ip, fails)
    \/ Step
    \/ Elapse

\* Identify calls of one device, one after the other, with time passing
\* between and during them; cache and store calls may fail.
SpecExpiry == Init /\ [][NextExpiry]_vars

\* Requests the rate limiter and the validator have passed enter the service
\* side by side, each is answered by the handler after the service returned,
\* and GET /metrics is served in between.
NextServe ==
    \/ \E r \in Reqs, ip \in ConcurrentIPs, fails \in BOOLEAN : Probe(r, "Z", ip, fails)
    \/ Step
    \/ \E r \in Reqs, metricFails \in BOOLEAN : Respond(r, metricFails)
    \/ Metrics({})

InitServe == Empty /\ regime = Reliable

\* Concurrent POST /v1/identify requests with one valid bundle and GET
\* /metrics requests, starting empty; no call fails.
SpecServe == InitServe /\ [][NextServe]_vars

\* A second passes between two requests: the time to live of every rl: key
\* goes down by one, and a key whose time is up is deleted.
Tick ==
    /\ Handling = {}
    /\ \E ip \in ClientIPs : limits[ip].count > 0
    /\ limits' = [ip \in ClientIPs |->
                    IF limits[ip].count = 0 \/ limits[ip].ttl = 1 THEN NoKey
                    ELSE [limits[ip] EXCEPT !.ttl = @ - 1, !.age = @ + 1]]
    /\ UNCHANGED <<service, origin, arg, result, retry>>

NextWindow ==
    \/ \E r \in Reqs, ip \in ClientIPs, fails \in BOOLEAN : LimitByIP(r, "A", ip, fails)
    \/ \E r \in Reqs : HandlerValidate(r)
    \/ Tick

\* The rate limiter over time: requests the handler answers with 400, one
\* after the other, seconds passing between them.
SpecWindow == Init /\ [][NextWindow]_vars

\* Tables of identifications of up to two visitors from two networks, the
\* rows created one after the other, with a subnet and a limit to query: the
\* subnet as extractIPSubnet writes it, and as the column ip_subnet holds it.
QuerySamples ==
    LET Row(i, v, ip) ==
            [request_id |-> MaxReq + i, visitor_id |-> v, ip_address |-> ip,
             ip_subnet |-> GeneratedSubnet(ip), signals |-> "A",
             confidence_score |-> One, created_at |-> i,
             hardware_hash |-> ComputeHardwareHash(Signals("A")), is_bot |-> FALSE]
        Tables == UNION {[1..n -> (1..2) \X RequestIPs] : n \in 0..(MaxCands + 1)}
    IN  {[rows |-> [i \in DOMAIN t |-> Row(i, t[i][1], t[i][2])],
          ipSubnet |-> subnet, limit |-> limit] :
            t \in Tables, limit \in 1..2,
            subnet \in {extractIPSubnet(ip) : ip \in RequestIPs}
                       \cup {GeneratedSubnet(ip) : ip \in RequestIPs}}

\* FindSimilarVisitors is called, its query failing or not.
Query(fails) ==
    /\ result = NoValue
    /\ result' = <<FindSimilarVisitors(arg.rows, arg.ipSubnet, arg.limit, fails), fails>>
    /\ UNCHANGED <<service, limits, origin, arg, retry>>

\* FindSimilarVisitors applied to a table, a subnet and a limit.
SpecQuery == InitApply(QuerySamples) /\ [][\E fails \in BOOLEAN : Query(fails)]_vars

\* The bundles detectBot is applied to: SigZ with every combination of the
\* automation flags, of a canvas and an audio digest that is there, missing,
\* "error" or another text, of CPU counts and device memories (in halves of a
\* GB) with and without 0, and of WebGL vendors and renderers.
DetectSamples ==
    {[SigZ EXCEPT !.WebDriver = fl[1], !.PhantomPresent = fl[2],
                  !.SeleniumPresent = fl[3], !.AutomationPresent = fl[4],
                  !.HeadlessChrome = fl[5], !.Canvas2DHash = cv, !.AudioHash = au,
                  !.HardwareConcurrency = cpu, !.DeviceMemory = mem,
                  !.WebGLVendor = gl[1], !.WebGLRenderer = gl[2]] :
        fl \in [1..5 -> BOOLEAN],
        cv \in {SigZ.Canvas2DHash, <<>>, CanvasError, CanvasNoContext},
        au \in {SigZ.AudioHash, "", "error", "Error"},
        cpu \in {0, 4}, mem \in {0, 1, 16},
        gl \in {<<"Intel", "Iris Xe">>, <<"Brian Paul", "Iris Xe">>,
                <<"Intel", "Google SwiftShader">>, <<"Google SwiftShader", "Brian Paul">>}}

Detect ==
    /\ result = NoValue
    /\ result' = <<detectBot(arg)>>
    /\ UNCHANGED <<service, limits, origin, arg, retry>>

\* detectBot applied to a bundle.
SpecDetect == InitApply(DetectSamples) /\ [][Detect]_vars

\* -------------------------------------------------------------- WithRetry

\* DefaultRetryConfig, the durations in milliseconds.
DefaultRetryConfig ==
    [MaxAttempts |-> 5, InitialWait |-> 100, MaxWait |-> 5000, Multiplier |-> 2]

\* Variant: sql.ErrNoRows is retried.
Retried_NoRows(err) == err \notin {"context canceled", "context deadline exceeded"}

\* The errors WithRetry goes on after: all but context.Canceled,
\* context.DeadlineExceeded and sql.ErrNoRows.
Retried(err) ==
    err \notin {"context canceled", "context deadline exceeded", "sql: no rows in result set"}

\* Variant: the wait grows by the initial wait.
NextWait_Linear(wait, config) == Min(wait + config.InitialWait, config.MaxWait)

\* The wait after a wait: multiplied, and capped by MaxWait.
NextWait(wait, config) == Min(wait * config.Multiplier, config.MaxWait)

\* WithRetry is called with the configuration arg and a context; a
\* configuration without attempts skips the loop.
WithRetry(ctx) ==
    /\ DOMAIN arg = DOMAIN DefaultRetryConfig
    /\ retry = NoValue
    /\ LET locals == [pc |-> "call", attempt |-> 1, wait |-> arg.InitialWait,
                      lastErr |-> "nil", ctx |-> ctx, calls |-> <<>>, waits |-> <<>>,
                      ret |-> [err |-> "nil", last |-> "nil"]] IN
       retry' = IF 1 <= arg.MaxAttempts THEN locals
                ELSE [locals EXCEPT !.pc = "returned",
                                    !.ret = [err |-> "max retries exceeded", last |-> "nil"]]
    /\ UNCHANGED <<service, limits, origin, arg, result>>

\* One pass of the loop up to the wait: the operation is called and returns
\* err: "nil" for no error, else context.Canceled, context.DeadlineExceeded
\* or sql.ErrNoRows, alone or wrapped, or an error of another kind.
Attempt(err) ==
    /\ DOMAIN retry # {} /\ retry.pc = "call"
    /\ LET called == [retry EXCEPT !.calls = Append(@, err)] IN
       retry' = IF err = "nil" THEN [called EXCEPT !.pc = "returned"]
                ELSE LET failed1 == [called EXCEPT !.lastErr = err] IN
                     IF ~Retried(err)
                     THEN [failed1 EXCEPT !.pc = "returned",
                                          !.ret = [err |-> err, last |-> "nil"]]
                     ELSE IF retry.attempt >= arg.MaxAttempts
                     THEN [failed1 EXCEPT !.pc = "returned",
                                          !.ret = [err |-> "max retries exceeded",
                                                   last |-> err]]
                     ELSE [failed1 EXCEPT !.pc = "wait"]
    /\ UNCHANGED <<service, limits, origin, arg, result>>

\* The select of the loop: the context is done and its error is returned, or
\* the wait is over, the next wait is computed and the next attempt begins.
Backoff ==
    /\ DOMAIN retry # {} /\ retry.pc = "wait"
    /\ retry' = IF retry.ctx # "live"
                THEN [retry EXCEPT !.pc = "returned",
                                   !.ret = [err |-> IF retry.ctx = "canceled"
                                                    THEN "context canceled"
                                                    ELSE "context deadline exceeded",
                                            last |-> "nil"]]
                ELSE [retry EXCEPT !.pc = "call", !.attempt = @ + 1,
                                   !.waits = Append(@, retry.wait),
                                   !.wait = NextWait(@, arg)]
    /\ UNCHANGED <<service, limits, origin, arg, result>>

\* The owner of the context cancels it, or its deadline passes.
Cancel(how) ==
    /\ DOMAIN retry # {} /\ retry.pc # "returned" /\ retry.ctx = "live"
    /\ retry' = [retry EXCEPT !.ctx = how]
    /\ UNCHANGED <<service, limits, origin, arg, result>>

NextRetry ==
    \/ \E ctx \in {"live", "canceled", "deadline"} : WithRetry(ctx)
    \/ \E err \in {"nil", "context canceled", "context deadline exceeded",
                    "sql: no rows in result set", "connection refused", "i/o timeout"} :
        Attempt(err)
    \/ Backoff
    \/ \E how \in {"canceled", "deadline"} : Cancel(how)

\* One call of WithRetry with an operation that returns anything, under the
\* default configuration, under one whose MaxWait caps the second wait, and
\* under one that allows no attempt.
SpecRetry ==
    /\ InitApply({DefaultRetryConfig,
                  [MaxAttempts |-> 4, InitialWait |-> 100, MaxWait |-> 300,
                   Multiplier |-> 2],
                  [MaxAttempts |-> 0, InitialWait |-> 100, MaxWait |-> 5000,
                   Multiplier |-> 2]})
    /\ [][NextRetry]_vars

\* The same, the operation returning and the timer of the wait firing.
SpecRetryLive == SpecRetry /\ WF_vars(NextRetry)

\* A bundle with the fields of models.Signals the engine does not read.
Whole(s) ==
    s @@ [Vendor |-> "Google Inc.", Plugins |-> <<"PDF Viewer">>, PermissionsHash |-> "p1"]

\* Another value for every field of a bundle.
Alternate ==
    [Canvas2DHash |-> <<"f", "e", "d", "c", "b", "a", "9", "8">>, AudioHash |-> "a1b2c3",
     WebGLVendor |-> "AMD", WebGLRenderer |-> "Radeon RX 580",
     WebGLExtensions |-> <<"EXT_blend_minmax">>, HardwareConcurrency |-> 16,
     DeviceMemory |-> 16, ColorDepth |-> 30, TimeZone |-> "Europe/Berlin",
     Languages |-> <<"de-DE">>, Fonts |-> <<"Arial">>,
     ScreenWidth |-> 2560, ScreenHeight |-> 1440, Platform |-> "MacIntel",
     UserAgent |-> UAChrome121,
     WebDriver |-> TRUE, PhantomPresent |-> TRUE, SeleniumPresent |-> TRUE,
     AutomationPresent |-> TRUE, HeadlessChrome |-> TRUE,
     Vendor |-> "Apple Computer, Inc.", Plugins |-> <<>>, PermissionsHash |-> "p2"]

\* The bundle s with the fields fs changed.
Varied(s, fs) == [f \in DOMAIN s |-> IF f \in fs THEN Alternate[f] ELSE s[f]]

FieldNames == DOMAIN Alternate

\* The six fields ComputeHardwareHash digests, and the software tier.
HardwareFields ==
    {"Canvas2DHash", "AudioHash", "WebGLVendor", "WebGLRenderer",
     "HardwareConcurrency", "DeviceMemory"}
SoftwareFields == {"Platform", "UserAgent", "Vendor", "Plugins", "PermissionsHash"}

\* The bundles ComputeHardwareHash is applied to: three devices, each as it
\* is, with one field changed, and with every field but the six changed.
DigestSamples ==
    {Varied(Whole(s), fs) :
        s \in {SigA, SigB, SigZ},
        fs \in {{}} \cup {{f} : f \in FieldNames} \cup {FieldNames \ HardwareFields}}

\* ComputeHardwareHash is applied to each bundle of the pair.
Digest ==
    /\ result = NoValue
    /\ result' = <<ComputeHardwareHash(arg[1]), ComputeHardwareHash(arg[2])>>
    /\ UNCHANGED <<service, limits, origin, arg, retry>>

\* The hardware digests of pairs of bundles.
SpecDigest == InitApply(DigestSamples \X DigestSamples) /\ [][Digest]_vars

\* The keys and the weights of the feature maps JaccardSimilarity is applied
\* to.
FeatureKeys == {"canvas:abc123", "tz:Europe/Berlin", "platform:Win32"}

\* The feature vectors: every map that holds each key with weight 0, 0.2,
\* 0.5 or 0.8 or not at all, with the digest ExtractFeatures gives it or with
\* a digest of its own.
VectorSamples ==
    LET Absent == 0 - 1
        Holdings ==
            [FeatureKeys ->
                {Absent, 0, SoftwareWeight, EnvironmentWeight, HardwareWeight}]
        MapOf(h) == [k \in {x \in FeatureKeys : h[x] # Absent} |-> h[k]]
        VectorOf(f, digested) ==
            [Features |-> f,
             Hash |-> IF digested
                      THEN computeVectorHash({<<k, f[k]>> : k \in DOMAIN f},
                                             DefaultWeights)
                      ELSE {<<"other", Fmt2(0)>>}]
    IN  {VectorOf(MapOf(h), d) : h \in Holdings, d \in BOOLEAN}

\* JaccardSimilarity is applied to the pair of vectors, and to the pair the
\* other way round.
Compare ==
    /\ result = NoValue
    /\ result' = <<JaccardSimilarity(arg[1], arg[2]), JaccardSimilarity(arg[2], arg[1])>>
    /\ UNCHANGED <<service, limits, origin, arg, retry>>

\* JaccardSimilarity of pairs of feature vectors, both ways.
SpecJaccard == InitApply(VectorSamples \X VectorSamples) /\ [][Compare]_vars

\* A bundle with every optional text empty.
SigBare ==
    [SigA EXCEPT !.Canvas2DHash = <<>>, !.AudioHash = "", !.TimeZone = "",
                 !.Platform = "", !.UserAgent = <<>>]

\* The bundles ExtractFeatures is applied to: three bundles, each with any of
\* the software fields changed, and with any one field changed.
ExtractSamples ==
    {Varied(Whole(s), fs) :
        s \in {SigA, SigZ, SigBare},
        fs \in (SUBSET SoftwareFields) \cup {{f} : f \in FieldNames}}

\* Their feature vectors under the default weights.
SampleVectors == [s \in ExtractSamples |-> ExtractFeatures(s, DefaultWeights)]

\* ExtractFeatures is applied to each bundle of the pair and
\* JaccardSimilarity to the two vectors.
Extract ==
    /\ result = NoValue
    /\ result' = <<JaccardSimilarity(SampleVectors[arg[1]], SampleVectors[arg[2]])>>
    /\ UNCHANGED <<service, limits, origin, arg, retry>>

\* The similarity of pairs of bundles under the default weights.
SpecExtract == InitApply(ExtractSamples \X ExtractSamples) /\ [][Extract]_vars

\* ------------------------------------------------------------ user agents

\* The user agents extractBrowserVersion is applied to: an optional product
\* before, a product name (five browsers, two other clients, or none), a
\* version written in several ways, and an optional product after.
UserAgentSamples ==
    LET before == {<<>>, <<"M","o","z","i","l","l","a","/","5",".","0"," ">>}
        names == {<<>>, <<"C","h","r","o","m","e">>, <<"F","i","r","e","f","o","x">>, <<"S","a","f","a","r","i">>,
                  <<"E","d","g","e">>, <<"O","P","E","R","A">>, <<"c","u","r","l">>, <<"G","o","o","g","l","e","b","o","t">>}
        versions == {<<>>, <<"/","1","2","0",".","0",".","0",".","0">>, <<"/","1","2","1",".","0">>,
                     <<"/"," ","7"," ",".","1">>, <<" ","9">>}
        after == {<<>>, <<" ","G","e","c","k","o","/","2","0","1","0">>}
    IN  {b \o n \o v \o a : b \in before, n \in names, v \in versions, a \in after}

\* extractBrowserVersion is applied to a user agent, and ExtractFeatures to a
\* bundle carrying it.
ExtractBrowser ==
    /\ result = NoValue
    /\ result' = <<extractBrowserVersion(arg),
                   {p[1] : p \in FeaturePairs([SigZ EXCEPT !.UserAgent = arg], DefaultWeights)}>>
    /\ UNCHANGED <<service, limits, origin, arg, retry>>

\* The browser versions of the sample user agents.
SpecBrowser == InitApply(UserAgentSamples) /\ [][ExtractBrowser]_vars

\* -------------------------------------------------------------- addresses

\* The addresses of the connections AnonymizeIP is applied to: IPv4 addresses
\* over a few octets, and IPv6 addresses, which hold no dot.
AddressSamples ==
    {<<a, b, c, d>> : a \in {"10", "192"}, b \in {"0", "1"}, c \in {"0", "1"},
                      d \in {"0", "7", "255"}}
    \cup {<<"::1">>, <<"2001:db8::7">>}

\* The handler anonymizes the address of each of two requests (and one of
\* them once more), and Identify derives the subnet of each.
Anonymize ==
    /\ result = NoValue
    /\ result' = [ip |-> <<AnonymizeIP(arg[1]), AnonymizeIP(arg[2])>>,
                  again |-> AnonymizeIP(AnonymizeIP(arg[1])),
                  subnet |-> <<extractIPSubnet(AnonymizeIP(arg[1])),
                               extractIPSubnet(AnonymizeIP(arg[2]))>>]
    /\ UNCHANGED <<service, limits, origin, arg, retry>>

\* The anonymized addresses and the subnets of pairs of requests.
SpecAddress == InitApply(AddressSamples \X AddressSamples) /\ [][Anonymize]_vars

\* ------------------------------------------------------------- properties

\* The configured threshold as a score.
ThresholdScore == <<threshold, 1000>>

\* No cache read, cache write or store call failed in request r.
Unfailing(r) == failed[r] \subseteq {"metric"}

\* Requests 1 and 2 carried the bundles b1 and b2 from one address, both have
\* returned and neither met a failure.
Scenario(b1, b2) ==
    /\ pc[1] \in {"done", "failed"} /\ pc[2] \in {"done", "failed"}
    /\ req[1].signals = b1 /\ req[2].signals = b2
    /\ req[1].ip = req[2].ip
    /\ Unfailing(1) /\ Unfailing(2)

\* The similarity of the bundles named b1 and b2 under the default weights.
Score(b1, b2) == Scores[b1, b2]

\* The scores of the candidates of request r, and the largest of them (0 for
\* an empty candidate list).
ScoresOf(r) == {Score(req[r].signals, cands[r][i].signals) : i \in 1..Len(cands[r])}
BestScoreOf(r) ==
    IF ScoresOf(r) = {} THEN Zero
    ELSE CHOOSE x \in ScoresOf(r) : \A y \in ScoresOf(r) : LessEq(y, x)

\* Request r stored an identification row.
HasRow(r) == \E i \in 1..Len(idents) : idents[i].request_id = r

\* C1: from an empty store and cache, when the first two calls carry the same
\* bundle, the second starting after the first returned and neither meeting a
\* cache or store failure, the first returns a new visitor V with confidence
\* 1.0 and the second returns V with is_new = false and confidence 1.0.
C1_SequentialCallsAgree ==
    ( /\ pc[1] \in {"done", "failed"} /\ pc[2] \in {"done", "failed"}
      /\ req[1].signals = req[2].signals
      /\ Unfailing(1) /\ Unfailing(2) )
    => /\ pc[1] = "done" /\ pc[2] = "done"
       /\ Response(1).IsNew /\ Response(1).Confidence = One
       /\ Response(1).VisitorID \in DOMAIN visitors
       /\ Response(2).VisitorID = Response(1).VisitorID
       /\ ~Response(2).IsNew /\ Response(2).Confidence = One

C1_Witness ==
    /\ pc[1] = "done" /\ pc[2] = "done"
    /\ req[1].signals = req[2].signals
    /\ failed[1] = {} /\ failed[2] = {}
    /\ req[2].alone
    /\ path[1] = "create" /\ path[2] = "hit"

\* C2 as stated: after Identify(A), Identify(A2) from the same address, A2
\* being A with Chrome/121 for Chrome/120, returns A's visitor with
\* is_new = false and a confidence c, 0.75 <= c < 1.0, decided by the
\* similarity path and not by a cache hit.
C2_HealedBySimilarity ==
    Scenario("A", "A2")
    => /\ pc[2] = "done"
       /\ Response(2).VisitorID = Response(1).VisitorID
       /\ ~Response(2).IsNew
       /\ LessEq(<<DefaultThreshold, 1000>>, Response(2).Confidence)
       /\ Less(Response(2).Confidence, One)
       /\ path[2] = "heal"

\* C2 amended: A2 has the hardware digest of A, so the second call is a
\* cache hit: it returns A's visitor with is_new = false and confidence
\* exactly 1.0. (The two bundles also have one vector digest, so their
\* similarity is 1.0 by the fast path.)
C2_BrowserUpdateHitsCache ==
    /\ ComputeHardwareHash(SigA2) = ComputeHardwareHash(SigA)
    /\ Score("A", "A2") = One
    /\ Scenario("A", "A2")
       => /\ pc[1] = "done" /\ pc[2] = "done"
          /\ Response(2).VisitorID = Response(1).VisitorID
          /\ ~Response(2).IsNew
          /\ Response(2).Confidence = One
          /\ path[2] = "hit"

C2_Witness ==
    /\ Scenario("A", "A2")
    /\ pc[1] = "done" /\ pc[2] = "done"
    /\ failed[1] = {} /\ failed[2] = {}

\* C3: bundle B, which disagrees with A on canvas digest, audio digest and
\* WebGL renderer, scores below 0.75 against A under the default weights,
\* and after Identify(A) an Identify(B) from the same address creates a new
\* visitor and returns is_new = true with an id other than A's.
C3_GpuSwapIsNewVisitor ==
    /\ Less(Score("A", "B"), <<DefaultThreshold, 1000>>)
    /\ Scenario("A", "B")
       => /\ pc[1] = "done" /\ pc[2] = "done"
          /\ Response(2).IsNew
          /\ Response(2).VisitorID # Response(1).VisitorID
          /\ Response(2).VisitorID \in DOMAIN visitors
          /\ path[2] = "create"

C3_Witness ==
    /\ Scenario("A", "B")
    /\ pc[1] = "done" /\ pc[2] = "done"
    /\ failed[1] = {} /\ failed[2] = {}
    /\ Cardinality(DOMAIN visitors) = 2

\* C4 as stated: on the miss path, for every threshold and every candidate
\* list, Identify heals exactly when the best candidate score (0 for an
\* empty list) is at least the threshold.
C4_HealsIffBestAtLeastThreshold ==
    \A r \in Reqs :
        path[r] \in {"heal", "create"}
        => (path[r] = "heal" <=> LessEq(ThresholdScore, BestScoreOf(r)))

\* C4 amended: Identify heals exactly when the best candidate score is at
\* least the threshold and above 0. It then takes the visitor of a candidate
\* with that score, confidence = that score, is_new = false, and creates no
\* visitor; otherwise it creates one visitor and, the insert done, holds its
\* id with confidence 1.0 and is_new = true.
C4_HealsIffPositiveBestAtLeastThreshold ==
    \A r \in Reqs :
        path[r] \in {"heal", "create"}
        => LET best == BestScoreOf(r)
               n == Len(cands[r])
           IN  /\ path[r] = "heal"
                    <=> (LessEq(ThresholdScore, best) /\ Less(Zero, best))
               /\ path[r] = "heal"
                    => /\ \E i \in 1..n :
                            /\ cands[r][i].visitor_id = visitorID[r]
                            /\ Score(req[r].signals, cands[r][i].signals) = best
                       /\ confidence[r] = best
                       /\ ~isNew[r]
                       /\ DOMAIN visitors = 1..n
               /\ path[r] = "create"
                    => /\ DOMAIN visitors \in {1..n, 1..(n + 1)}
                       /\ pc[r] = "createVisitor" => DOMAIN visitors = 1..n
                       /\ pc[r] \in {"cachePut", "persist", "done"}
                            => /\ DOMAIN visitors = 1..(n + 1)
                               /\ visitorID[r] = n + 1
                               /\ confidence[r] = One
                               /\ isNew[r]

C4_Witness ==
    \E r \in Reqs :
        /\ pc[r] = "done" /\ path[r] = "heal"
        /\ Len(cands[r]) >= 2
        /\ threshold = DefaultThreshold
        /\ Less(Response(r).Confidence, One)
        /\ ~Response(r).IsNew

\* C5 as stated: a call whose cache probe returned a value that is no uuid
\* treats the entry as a miss and goes on to the candidates; it does not
\* take the hit path with an id derived from that value.
C5_UnparseableIsMiss ==
    \A r \in Reqs :
        (pc[r] # "idle" /\ probed[r] # NoValue /\ ~UUIDParse(probed[r]).ok)
        => path[r] # "hit"

\* C6: over a working store no cache failure fails Identify: whichever of
\* its cache calls fail, the call never ends in an error, a failed probe is
\* never a hit, and a call that returned has stored its identification for
\* a visitor of the store.
C6_CacheFailuresNeverFail ==
    \A r \in Reqs :
        /\ pc[r] # "failed"
        /\ "get" \in failed[r] => path[r] # "hit"
        /\ pc[r] = "done" => HasRow(r) /\ Response(r).VisitorID \in DOMAIN visitors

C6_Witness ==
    \E r \in Reqs :
        /\ pc[r] = "done"
        /\ failed[r] = CacheKinds
        /\ \E q \in Reqs : pc[q] = "done" /\ path[q] = "hit" /\ "metric" \in failed[q]

\* C7 as stated: a call that ended in an error has left nothing behind: no
\* visitor row it created, no cache entry it wrote, no identification row.
C7_FailureLeavesNoWrite ==
    \A r \in Reqs :
        pc[r] = "failed"
        => /\ ~(path[r] = "create" /\ visitorID[r] \in DOMAIN visitors)
           /\ ~(path[r] \in {"create", "heal"}
                /\ cache[hardwareHash(r)].val = UUIDString(visitorID[r]))
           /\ ~HasRow(r)

\* C8: a call whose probe reads an entry of its digest (the cache answering)
\* takes the hit path with the id of the last write to that entry, is_new =
\* false and confidence 1.0; it creates no visitor (every visitor belongs to
\* a call of the create branch) and ends in an error only when the store
\* fails. This holds for every call that probes after a write, whether or
\* not the writers have returned.
C8_LaterCallsReturnLastWrite ==
    /\ DOMAIN visitors = {visitorID[q] : q \in {x \in Reqs : isNew[x]}}
    /\ \A r \in Reqs :
        (pc[r] # "idle" /\ "get" \notin failed[r] /\ lastAtProbe[r] # NoValue)
        => /\ path[r] = "hit"
           /\ UUIDString(Response(r).VisitorID) = lastAtProbe[r]
           /\ ~Response(r).IsNew
           /\ Response(r).Confidence = One
           /\ pc[r] \in {"persistHit", "done", "failed"}
           /\ pc[r] = "failed" => "store" \in failed[r]

\* Calls 1 and 2 overlapped and each created a visitor; call 3 arrived when
\* both had returned.
C8_Witness ==
    /\ MaxReq >= 3
    /\ pc[1] = "done" /\ pc[2] = "done" /\ pc[3] = "done"
    /\ ~req[2].alone /\ req[3].alone
    /\ path[1] = "create" /\ path[2] = "create" /\ path[3] = "hit"
    /\ visitorID[1] # visitorID[2]
    /\ UUIDString(Response(3).VisitorID) = lastWrite[hardwareHash(3)]
    /\ \A r \in 1..3 : failed[r] = {}

\* C9: in every reachable state every stored identification has the
\* visitor_id of a visitor in the store.
C9_IdentificationsReferenceVisitors ==
    \A i \in 1..Len(idents) : idents[i].visitor_id \in DOMAIN visitors

\* A row was stored and the insert of a call holding uuid.Nil was rejected.
C9_Witness ==
    /\ Len(idents) >= 1
    /\ \E r \in Reqs :
        /\ pc[r] = "failed" /\ path[r] = "hit"
        /\ failed[r] = {}
        /\ visitorID[r] \notin DOMAIN visitors

\* C10: every step that changes a cache entry writes the id of a visitor the
\* store already holds: the writer stands at its write-through with that id,
\* which on heal is the id of one of its candidates and on create the id of
\* the visitor it inserted.
C10_CacheWriteNamesStoredVisitor ==
    [][\A h \in HwKeys :
          cache'[h] # cache[h]
          => /\ UUIDParse(cache'[h].val).ok
             /\ UUIDParse(cache'[h].val).id \in DOMAIN visitors
             /\ \E r \in Reqs :
                  /\ pc[r] = "cachePut" /\ hardwareHash(r) = h
                  /\ visitorID[r] = UUIDParse(cache'[h].val).id
                  /\ path[r] = "heal"
                       => \E i \in 1..Len(cands[r]) :
                              cands[r][i].visitor_id = visitorID[r]
                  /\ path[r] = "create" => isNew[r]]_vars

C10_Witness ==
    \E r \in Reqs :
        /\ path[r] = "heal"
        /\ pc[r] = "persist"
        /\ cache[hardwareHash(r)].val = UUIDString(visitorID[r])
        /\ visitorID[r] \in DOMAIN visitors

\* A score lies in [0, 1].
InUnit(x) == LessEq(Zero, x) /\ LessEq(x, One)

\* C11: every confidence Identify returns and every confidence_score stored
\* lies in [0, 1]; it is 1.0 on a cache hit and on creation, and lies in
\* [threshold, 1] on a heal; the row a call stored carries the confidence
\* it returned.
C11_ConfidenceInRange ==
    /\ \A i \in 1..Len(idents) : InUnit(idents[i].confidence_score)
    /\ \A r \in Reqs :
        pc[r] = "done"
        => /\ InUnit(Response(r).Confidence)
           /\ path[r] \in {"hit", "create"} => Response(r).Confidence = One
           /\ path[r] = "heal" => LessEq(ThresholdScore, Response(r).Confidence)
           /\ \A i \in 1..Len(idents) :
                idents[i].request_id = r
                => idents[i].confidence_score = Response(r).Confidence

\* A call healed with a confidence below 1 and a later call hit the cache.
C11_Witness ==
    \E r \in Reqs, q \in Reqs :
        /\ pc[r] = "done" /\ path[r] = "heal"
        /\ Less(Response(r).Confidence, One)
        /\ pc[q] = "done" /\ path[q] = "hit"
        /\ Response(q).VisitorID = Response(r).VisitorID

\* C12: identifications are append-only with one row per request: a step
\* keeps every row there is; the step in which a call returns a response
\* appends exactly one row, with the request_id of the response, which no
\* earlier row has; and no other step adds a row.
C12_IdentificationsAppendOnly ==
    [][/\ Len(idents') >= Len(idents)
       /\ SubSeq(idents', 1, Len(idents)) = idents
       /\ \A r \in Reqs :
            (pc[r] # "done" /\ pc'[r] = "done")
            => /\ Len(idents') = Len(idents) + 1
               /\ idents'[Len(idents')].request_id = Response(r).RequestID
               /\ idents'[Len(idents')].visitor_id = visitorID'[r]
               /\ \A i \in 1..Len(idents) :
                    idents[i].request_id # Response(r).RequestID
       /\ Len(idents') # Len(idents)
            => \E r \in Reqs : pc[r] # "done" /\ pc'[r] = "done"]_vars

\* Request 1 and a later call both returned, each with its row after the
\* rows that were there.
C12_Witness ==
    /\ pc[1] = "done" /\ pc[2] = "done"
    /\ Len(cands[1]) >= 1
    /\ Len(idents) = Len(cands[1]) + 2
    /\ HasRow(1) /\ HasRow(2)
    /\ path[2] = "hit"

\* C13: two calls of Identify from the same cache and store with bundles that
\* differ in automation flags only return the same visitor, confidence and
\* is_new, and each stored identification carries detectBot of its own
\* bundle, which is true when webdriver is set.
C13_FlagsDoNotAlterMatching ==
    /\ \A r \in Reqs : \A q \in Reqs :
         (/\ pc[r] = "done" /\ pc[q] = "done"
          /\ SameButFlags(Signals(req[r].signals), Signals(req[q].signals)))
         => /\ visitorID[r] = visitorID[q]
            /\ confidence[r] = confidence[q]
            /\ isNew[r] = isNew[q]
    /\ \A i \in DOMAIN idents :
         LET row == idents[i] IN
         row.request_id \in Reqs
         => /\ row.signals = req[row.request_id].signals
            /\ row.is_bot = detectBot(Signals(row.signals))
            /\ Signals(row.signals).WebDriver => row.is_bot

\* The plain bundle healed to a stored visitor, and so did the run from the
\* same state with webdriver set, whose row says it is a bot.
C13_Witness ==
    /\ pc[1] = "done" /\ pc[2] = "done"
    /\ req[1].signals = "A" /\ req[2].signals = "W"
    /\ path[1] = "heal" /\ path[2] = "heal"
    /\ visitorID[1] = visitorID[2]
    /\ HasRow(2)
    /\ \E i \in DOMAIN idents : idents[i].request_id = 2 /\ idents[i].is_bot

\* C14: the validator rejects a bundle exactly when the canvas digest is
\* empty, or is neither sentinel and not 8 to 128 hex characters, or the
\* audio digest is empty, or the CPU count is outside 0..256, or the user
\* agent is longer than 1000.
C14_RejectsExactlyViolations ==
    result # NoValue =>
        LET canvas == arg.Canvas2DHash
            hex == /\ Len(canvas) \in 8..128
                   /\ \A i \in 1..Len(canvas) : canvas[i] \in HexDigits
            violated ==
                \/ canvas = <<>>
                \/ canvas \notin {CanvasError, CanvasNoContext} /\ ~hex
                \/ arg.AudioHash = ""
                \/ arg.HardwareConcurrency \notin 0..256
                \/ Len(arg.UserAgent) > 1000
        IN  (result[1] # {}) <=> violated

\* A bundle at every upper limit but one: a canvas digest of 129 hex
\* characters is the only field refused.
C14_Witness ==
    /\ result # NoValue
    /\ Len(arg.Canvas2DHash) = 129
    /\ arg.AudioHash # ""
    /\ arg.HardwareConcurrency = 256
    /\ Len(arg.UserAgent) = 1000
    /\ result[1] = {<<"canvas_2d_hash", "invalid format">>}

\* Two bundles agree on the fields fs.
AgreeOn(s1, s2, fs) == \A f \in fs : s1[f] = s2[f]

\* The validator refuses the bundle named b.
Invalid(b) == ValidateIdentifyRequest(Signals(b)) # {}

\* C15 as stated: a step taken for a request that fails validation changes
\* nothing in the cache, the rate limiter's counters included, and nothing
\* in the store, and the request is on its way to 400.
C15_InvalidRequestTouchesNothing ==
    [][\A r \in Reqs :
        (pc'[r] # pc[r] /\ Invalid(req'[r].signals))
        => /\ pc'[r] \in {"validate", "rejected"}
           /\ cache' = cache /\ limits' = limits /\ metrics' = metrics
           /\ visitors' = visitors /\ idents' = idents]_vars

\* C15: a step taken for a request that fails validation reads and writes no
\* hw: key, no metric and no row of the store.  The rate limiter runs before
\* the validator: it increments the counter of the caller's address once,
\* unless the cache fails, and answers 429 when the count exceeds the limit;
\* a request that passes it is answered with 400 by the validator, which
\* changes nothing.
C15_InvalidRequestOnlyCountsLimit ==
    [][\A r \in Reqs :
        (pc'[r] # pc[r] /\ Invalid(req'[r].signals))
        => /\ cache' = cache /\ metrics' = metrics /\ lastWrite' = lastWrite
           /\ visitors' = visitors /\ idents' = idents
           /\ \A ip \in ClientIPs : ip # req'[r].ip => limits'[ip] = limits[ip]
           /\ IF pc[r] = "validate"
              THEN pc'[r] = "rejected" /\ limits' = limits
              ELSE /\ pc[r] = "idle"
                   /\ IF "limit" \in failed'[r]
                      THEN limits' = limits /\ pc'[r] = "validate"
                      ELSE /\ limits'[req'[r].ip].count = limits[req'[r].ip].count + 1
                           /\ pc'[r] = IF limits'[req'[r].ip].count > RateLimitRequests
                                       THEN "limited" ELSE "validate"]_vars

\* After a request that was stored and answered with 200, a request from the
\* same address with a bundle the validator refuses was answered with 400:
\* the counter of the address stands at two and the store holds one row.
C15_Witness ==
    /\ pc[1] = "ok" /\ pc[2] = "rejected"
    /\ Invalid(req[2].signals)
    /\ limits[req[2].ip].count = 2
    /\ Len(idents) = 1 /\ HasRow(1) /\ ~HasRow(2)

\* C16: every text of a bundle that was accepted and stored is free of
\* control bytes other than newline and tab.
C16_StoredTextsSanitized ==
    \A i \in DOMAIN idents :
        LET s == Signals(idents[i].signals) IN
        /\ SanitizeString(s.UserAgent) = s.UserAgent
        /\ SanitizeString(s.Canvas2DHash) = s.Canvas2DHash

\* C17: two bundles that agree on canvas digest, audio digest, WebGL vendor,
\* WebGL renderer, CPU count and device memory have the same hardware digest,
\* and so the same cache key, whatever their other fields hold.
C17_DigestOfSixFields ==
    (result # NoValue /\ AgreeOn(arg[1], arg[2], HardwareFields))
    => result[1] = result[2]

\* Two bundles that agree on the six fields and on no other were digested
\* alike.
C17_Witness ==
    /\ result # NoValue
    /\ AgreeOn(arg[1], arg[2], HardwareFields)
    /\ \A f \in FieldNames \ HardwareFields : arg[1][f] # arg[2][f]
    /\ result[1] = result[2]

C19_JaccardInUnit ==
    (/\ result # NoValue
     /\ \A i \in 1..2 : \A k \in DOMAIN arg[i].Features : arg[i].Features[k] >= 0)
    => InUnit(result[1]) /\ InUnit(result[2])

\* Two vectors that hold every key with weight 0 and have different digests
\* were compared: the union is 0 and the similarity 0.
C19_Witness ==
    /\ result # NoValue
    /\ DOMAIN arg[1].Features = FeatureKeys /\ DOMAIN arg[2].Features = FeatureKeys
    /\ \A k \in FeatureKeys : arg[1].Features[k] = 0 /\ arg[2].Features[k] = 0
    /\ arg[1].Hash # arg[2].Hash
    /\ result[1] = Zero

\* C20: under the default weights, two bundles that differ in software-tier
\* fields only (platform, user agent, vendor, plugins, permissions digest)
\* have a similarity of at least 0.75.
C20_SoftwareChangeStaysSimilar ==
    (result # NoValue /\ AgreeOn(arg[1], arg[2], FieldNames \ SoftwareFields))
    => LessEq(<<3, 4>>, result[1])

\* Two bundles that differ in every software-tier field and in nothing else
\* were compared.
C20_Witness ==
    /\ result # NoValue
    /\ AgreeOn(arg[1], arg[2], FieldNames \ SoftwareFields)
    /\ \A f \in SoftwareFields : arg[1][f] # arg[2][f]
    /\ arg[1].Canvas2DHash # <<>>
    /\ LessEq(<<3, 4>>, result[1])


\* The requests up to r that came from the address of r.
FromSameAddress(r) == {q \in 1..r : SubSeq(req[q].ip, 1, 3) = SubSeq(req[r].ip, 1, 3)}

\* C21: of the requests that arrive from one address in one window, the rate
\* limiter's calls of the cache succeeding, the first RateLimitRequests are
\* passed on to the handler and every later one is answered with 429 and
\* retry_after equal to the window in seconds.
C21_FirstNPassThenRejected ==
    \A r \in Reqs :
        ( /\ req[r] # NoRequest
          /\ \A q \in FromSameAddress(r) : "limit" \notin failed[q] )
        => IF Cardinality(FromSameAddress(r)) <= RateLimitRequests
           THEN pc[r] # "limited"
           ELSE /\ pc[r] = "limited"
                /\ result = [status |-> 429, retry_after |-> RateLimitWindow]

\* Three requests from one address with a bundle the validator accepts, no
\* call failing: 200, 200 and 429.
C21_Witness ==
    /\ pc[1] = "ok" /\ pc[2] = "ok" /\ pc[3] = "limited"
    /\ FromSameAddress(3) = {1, 2, 3}
    /\ \A q \in 1..3 : failed[q] = {}
    /\ Len(idents) = 2
    /\ result.retry_after = RateLimitWindow

\* C22 as stated: the counter of an address is gone one window after the
\* first request of that window, so a request is answered with 429 only
\* within one window of the first request counted with it.
C22_RejectedOnlyWithinFirstWindow ==
    [][\A r \in Reqs :
        (pc[r] = "idle" /\ pc'[r] = "limited")
        => limits[req'[r].ip].age < RateLimitWindow]_vars

\* C23: the cache_hit_rate of an answer of GET /metrics is 100 times the
\* cache_hits of that answer divided by its total_identifications, and 0 when
\* its total_identifications is 0.
C23_HitRateFromCounters ==
    "cache_hit_rate" \in DOMAIN result
    => IF result.total_identifications = 0
       THEN result.cache_hit_rate = <<0, 1>>
       ELSE /\ result.cache_hit_rate[2] > 0
            /\ result.cache_hit_rate[1] * result.total_identifications
               = 100 * result.cache_hits * result.cache_hit_rate[2]

\* After three requests were answered with 200, two of them from the cache,
\* GET /metrics reports the counters as stored and a hit rate of 200/3.
C23_Witness ==
    /\ "cache_hit_rate" \in DOMAIN result
    /\ result.total_identifications = 3 /\ metrics["total_identifications"] = 3
    /\ result.cache_hits = 2 /\ metrics["cache_hits"] = 2
    /\ result.cache_hit_rate = <<200, 3>>

\* C24: a step that inserts an identification sets, in the same step, the
\* last_seen_ip of the visitor it references to the row's ip_address, gives it
\* a later updated_at and raises its visit_count by exactly 1, leaving every
\* other visitor and the visitor's other columns as they were; a step that
\* inserts no identification changes no existing visitor.
C24_InsertUpdatesItsVisitor ==
    [][IF idents' # idents
       THEN /\ Len(idents') = Len(idents) + 1
            /\ SubSeq(idents', 1, Len(idents)) = idents
            /\ DOMAIN visitors' = DOMAIN visitors
            /\ LET row == idents'[Len(idents')] IN
                /\ row.visitor_id \in DOMAIN visitors
                /\ \A v \in DOMAIN visitors :
                    visitors'[v] =
                        IF v = row.visitor_id
                        THEN [updated_at |-> visitors'[v].updated_at,
                              first_seen_ip |-> visitors[v].first_seen_ip,
                              last_seen_ip |-> row.ip_address,
                              visit_count |-> visitors[v].visit_count + 1]
                        ELSE visitors[v]
                /\ visitors'[row.visitor_id].updated_at > visitors[row.visitor_id].updated_at
                /\ visitors'[row.visitor_id].updated_at >= row.created_at
       ELSE \A v \in DOMAIN visitors : visitors'[v] = visitors[v]]_vars

\* Two visitors are stored, the second because the write-through of the first
\* request failed; the second was created from one network and seen again
\* from another: three rows in all, its visit_count is 3 and its last_seen_ip
\* the later address, and the first visitor stands as its one row left it.
C24_Witness ==
    /\ DOMAIN visitors = {1, 2}
    /\ visitors[1].visit_count = 2 /\ visitors[2].visit_count = 3
    /\ visitors[2].last_seen_ip # visitors[2].first_seen_ip
    /\ Len(idents) = 3
    /\ idents[3].visitor_id = 2
    /\ visitors[2].last_seen_ip = idents[3].ip_address
    /\ visitors[2].updated_at > idents[2].created_at

\* The call of WithRetry has returned.
WithRetryReturned == DOMAIN retry # {} /\ retry.pc = "returned"

\* C25: when a call of the operation returns context.Canceled,
\* context.DeadlineExceeded or sql.ErrNoRows, WithRetry returns that error in
\* the same step; when the context is done during a wait, WithRetry returns
\* the error of the context without calling the operation; and once it has
\* returned it calls nothing.
C25_NeverRetriesFinalErrors ==
    [][DOMAIN retry # {} =>
        /\ ( /\ Len(retry'.calls) = Len(retry.calls) + 1
             /\ retry'.calls[Len(retry'.calls)] \in
                    {"context canceled", "context deadline exceeded",
                     "sql: no rows in result set"} )
           => /\ retry'.pc = "returned"
              /\ retry'.ret = [err |-> retry'.calls[Len(retry'.calls)], last |-> "nil"]
        /\ (retry.pc = "wait" /\ retry.ctx # "live" /\ retry'.ctx = retry.ctx)
           => /\ retry'.pc = "returned"
              /\ retry'.calls = retry.calls
              /\ retry'.ret.err = IF retry.ctx = "canceled" THEN "context canceled"
                                  ELSE "context deadline exceeded"
        /\ retry.pc = "returned" => retry' = retry]_vars

\* After two failures that are retried the operation returned sql.ErrNoRows
\* and WithRetry returned it, having made three calls and waited twice.
C25_Witness ==
    /\ WithRetryReturned
    /\ Len(retry.calls) = 3 /\ Len(retry.waits) = 2
    /\ retry.calls[3] = "sql: no rows in result set"
    /\ retry.ret.err = "sql: no rows in result set"
    /\ arg.MaxAttempts = 5

\* The calls so far, all but the last when it has returned, failed with an
\* error that is retried.
AllRetried(n) == \A k \in 1..n : retry.calls[k] \notin {"nil", "context canceled",
                    "context deadline exceeded", "sql: no rows in result set"}

\* C26: under the default configuration WithRetry returns; it makes at most 5
\* calls of the operation; a call that succeeds is the last and nil is
\* returned; after 5 calls that failed with a retried error it returns
\* ErrMaxRetries with the last error; and the k-th wait, between the calls k
\* and k+1, lasts min(100 ms * 2^(k-1), 5 s).
C26_DefaultRetryIsBounded ==
    (arg = DefaultRetryConfig) =>
        /\ <>WithRetryReturned
        /\ [](DOMAIN retry # {} =>
                /\ Len(retry.calls) <= 5
                /\ \A k \in 1..Len(retry.calls) :
                      retry.calls[k] = "nil"
                      => /\ k = Len(retry.calls)
                         /\ retry.pc = "returned"
                         /\ retry.ret = [err |-> "nil", last |-> "nil"]
                /\ (Len(retry.calls) = 5 /\ AllRetried(5))
                   => /\ retry.pc = "returned"
                      /\ retry.ret = [err |-> "max retries exceeded",
                                      last |-> retry.calls[5]]
                /\ Len(retry.waits) = IF retry.pc = "call" THEN Len(retry.calls)
                                      ELSE Len(retry.calls) - 1
                /\ \A k \in 1..Len(retry.waits) :
                      /\ AllRetried(k)
                      /\ retry.waits[k] = Min(100 * 2 ^ (k - 1), 5000))

\* Under the default configuration five calls failed and WithRetry returned
\* ErrMaxRetries after waiting 100, 200, 400 and 800 ms.
C26_Witness ==
    /\ arg = DefaultRetryConfig
    /\ WithRetryReturned
    /\ Len(retry.calls) = 5 /\ AllRetried(5)
    /\ retry.waits = <<100, 200, 400, 800>>
    /\ retry.ret = [err |-> "max retries exceeded", last |-> retry.calls[5]]

\* C27 as stated: FindSimilarVisitors, when it returns no error, returns
\* min(limit, number of visitors with an identification in the subnet) rows,
\* each the most recent identification in the subnet of a distinct visitor,
\* the most recent row first, and every visitor left out was last seen
\* before every visitor returned.
C27_NewestPerVisitorByRecency ==
    (result # NoValue /\ ~result[1].err)
    => LET out == result[1].rows
           inSubnet == {i \in DOMAIN arg.rows :
                           extractIPSubnet(arg.rows[i].ip_address) = arg.ipSubnet}
           vids == {arg.rows[i].visitor_id : i \in inSubnet}
           newest(v) == CHOOSE i \in inSubnet :
                           /\ arg.rows[i].visitor_id = v
                           /\ \A j \in inSubnet :
                                arg.rows[j].visitor_id = v
                                => arg.rows[j].created_at <= arg.rows[i].created_at
       IN  /\ Len(out) = Min(arg.limit, Cardinality(vids))
           /\ \A k \in 1..Len(out) :
                /\ out[k].visitor_id \in vids
                /\ out[k] = arg.rows[newest(out[k].visitor_id)]
           /\ \A k, l \in 1..Len(out) : k < l => out[k].created_at > out[l].created_at
           /\ \A v \in vids :
                (\A k \in 1..Len(out) : out[k].visitor_id # v)
                => \A k \in 1..Len(out) :
                      out[k].created_at > arg.rows[newest(v)].created_at

WeightIn(f, k) == IF k \in DOMAIN f THEN f[k] ELSE 0

\* C29: JaccardSimilarity(a, b) is 0 when either feature map is empty;
\* otherwise 1 when the digests of the two vectors are equal; otherwise the
\* sum over the keys of either map of the smaller weight divided by the sum
\* of the larger weight, an absent key weighing 0, and 0 when the latter sum
\* is 0.  A non-empty vector compared with itself scores 1.
C29_JaccardAsSpecified ==
    result # NoValue
    => LET a == arg[1].Features
           b == arg[2].Features
           keys == DOMAIN a \cup DOMAIN b
           mins == SumOver(keys, [k \in keys |-> Min(WeightIn(a, k), WeightIn(b, k))])
           maxs == SumOver(keys, [k \in keys |-> Max(WeightIn(a, k), WeightIn(b, k))])
           score == result[1]
       IN  /\ IF DOMAIN a = {} \/ DOMAIN b = {} THEN score = <<0, 1>>
              ELSE IF arg[1].Hash = arg[2].Hash THEN score = <<1, 1>>
              ELSE IF maxs = 0 THEN score = <<0, 1>>
              ELSE score[2] > 0 /\ score[1] * maxs = mins * score[2]
           /\ (arg[1] = arg[2] /\ DOMAIN a # {}) => score = <<1, 1>>

\* Two vectors with the same digest whose maps differ in a key of low weight:
\* the score is 1 although the sums give less than 1.
C29_Witness ==
    /\ result # NoValue
    /\ DOMAIN arg[1].Features # {} /\ DOMAIN arg[2].Features # {}
    /\ arg[1].Hash = arg[2].Hash
    /\ arg[1].Features # arg[2].Features
    /\ Less(WeightedJaccard(arg[1].Features, arg[2].Features), One)
    /\ result[1] = One

\* C30: detectBot answers false exactly for the bundles in which no
\* automation flag is set, the canvas and the audio digest are there and are
\* not "error", the CPU count and the device memory are both other than 0,
\* the WebGL vendor is not "Brian Paul" and the renderer is not "Google
\* SwiftShader"; for every other bundle it answers true.
C30_BotIffAnyIndicator ==
    result # NoValue
    => LET flags == {arg.WebDriver, arg.PhantomPresent, arg.SeleniumPresent,
                     arg.AutomationPresent, arg.HeadlessChrome}
           clean ==
               /\ flags = {FALSE}
               /\ Len(arg.Canvas2DHash) > 0
               /\ arg.Canvas2DHash # <<"e", "r", "r", "o", "r">>
               /\ arg.AudioHash \notin {"", "error"}
               /\ arg.HardwareConcurrency # 0 /\ arg.DeviceMemory # 0
               /\ arg.WebGLVendor # "Brian Paul"
               /\ arg.WebGLRenderer # "Google SwiftShader"
       IN  result[1] = ~clean

\* A bundle whose only indicator is a device memory of 0, its CPU count
\* being 4: detectBot answers true.
C30_Witness ==
    /\ result # NoValue
    /\ arg = [SigZ EXCEPT !.DeviceMemory = 0]
    /\ arg.HardwareConcurrency = 4
    /\ result[1] = TRUE

\* Whether one of the browser names occurs in the lowercased user agent.
NamesBrowser(ua) == \E k \in DOMAIN Browsers : Index(ToLower(ua), Browsers[k]) # 0

\* C31: extractBrowserVersion gives name:major for a Chrome/120.0.0.0 and a
\* Firefox/121.0 user agent, and the empty text both for the empty user agent
\* and for every user agent that names no browser, for which ExtractFeatures
\* then stores no browser feature.
C31_NoBrowserGivesEmpty ==
    result # NoValue =>
        /\ arg = UAChrome120 =>
             result[1] = <<"c","h","r","o","m","e",":","1","2","0">>
        /\ arg = <<"F","i","r","e","f","o","x","/","1","2","1",".","0">> =>
             result[1] = <<"f","i","r","e","f","o","x",":","1","2","1">>
        /\ ~NamesBrowser(arg) =>
             /\ result[1] = <<>>
             /\ \A k \in result[2] : k[1] # "browser"

\* Whether the record-valued or tuple-valued result has been written.
Applied == DOMAIN result # {}

FirstSight(r) ==
    /\ pc[r] = "done" /\ failed[r] = {}
    /\ probed[r] = NoValue /\ cands[r] = <<>>

\* C33: two Identify calls with one bundle that both miss the cache and both
\* get an empty candidate set both create a visitor, and their responses
\* carry two distinct visitor ids, both with is_new = true; concurrent calls
\* on an empty store can do so.
C33_BothFirstSightsCreate ==
    \A r \in Reqs, q \in Reqs :
        r # q /\ req[r].signals = req[q].signals /\ FirstSight(r) /\ FirstSight(q) =>
            /\ path[r] = "create" /\ path[q] = "create"
            /\ Response(r).IsNew /\ Response(q).IsNew
            /\ Response(r).VisitorID # Response(q).VisitorID
            /\ {Response(r).VisitorID, Response(q).VisitorID} \subseteq DOMAIN visitors

\* Calls 1 and 2 with the same bundle ran side by side on the empty store,
\* met no failure, and returned the new visitors 1 and 2.
C33_Witness ==
    /\ FirstSight(1) /\ FirstSight(2)
    /\ req[1].signals = req[2].signals /\ req[1].ip = req[2].ip
    /\ ~req[2].alone
    /\ Response(1).IsNew /\ Response(2).IsNew
    /\ {Response(1).VisitorID, Response(2).VisitorID} = {1, 2}
    /\ Len(idents) = 2

\* The requests up to r that carried the hardware digest of request r.
WithSameDigest(r) ==
    {q \in 1..r : req[q] # NoRequest /\ hardwareHash(q) = hardwareHash(r)}

\* C34 as stated: of the requests that arrive on POST /v1/identify with one
\* hardware digest in one window, those after the first RateLimitByHardware
\* are answered with 429 and leave no identification.
C34_HardwareLimitRejects ==
    \A r \in Reqs :
        req[r] # NoRequest /\ Cardinality(WithSameDigest(r)) > RateLimitByHardware =>
            /\ pc[r] \notin {"validate", "rejected"} => pc[r] = "limited"
            /\ \A i \in DOMAIN idents : idents[i].request_id # r

\* C35 as stated: in every reachable state the counter cache_hits is at most
\* total_identifications, and a cache_hit_rate GET /metrics reported is at
\* most 100.
C35_HitsAtMostTotal ==
    /\ metrics["cache_hits"] <= metrics["total_identifications"]
    /\ "cache_hit_rate" \in DOMAIN result => LessEq(result.cache_hit_rate, <<100, 1>>)

\* The identifications that reference visitor v.
IdentificationsOf(v) == {i \in DOMAIN idents : idents[i].visitor_id = v}

\* C36: in every reachable state the visit_count of every visitor is 1 plus
\* the number of identifications that reference it.
C36_VisitCountIsOnePlusRows ==
    \A v \in DOMAIN visitors :
        visitors[v].visit_count = 1 + Cardinality(IdentificationsOf(v))

\* Visitor 1 was created and identified once more from the cache (count 3),
\* visitor 2 was created by a call whose insert of the identification failed
\* (count 1).
C36_Witness ==
    /\ DOMAIN visitors = {1, 2}
    /\ Cardinality(IdentificationsOf(1)) = 2 /\ visitors[1].visit_count = 3
    /\ IdentificationsOf(2) = {} /\ visitors[2].visit_count = 1
    /\ \E r \in Reqs : visitorID[r] = 2 /\ pc[r] = "failed"

\* C37: an hw: key that exists was written CacheTTL minus its remaining time
\* ago, so it expires one CacheTTL after the SET that wrote it; a key changes
\* only when time passes or when the write-through of a heal or create path
\* sets it; no step of a cache hit changes the cache; and a call that finds
\* no key goes on to candidate retrieval.
C37_HitsDoNotRenewTheEntry ==
    /\ [](\A h \in HwKeys :
            cache[h].val # NoValue =>
                cache[h].ttl >= 1 /\ cache[h].ttl + cache[h].age = CacheTTL)
    /\ [][ /\ \A h \in HwKeys :
                cache'[h] # cache[h] =>
                    IF cache'[h].age = 0 /\ cache'[h].val # NoValue
                    THEN \E r \in Reqs :
                            /\ pc[r] = "cachePut" /\ path[r] \in {"heal", "create"}
                            /\ hardwareHash(r) = h
                            /\ cache'[h] = Entry(UUIDString(visitorID[r]))
                    ELSE /\ pc' = pc
                         /\ IF cache[h].ttl = 1 THEN cache'[h] = NoEntry
                            ELSE cache'[h] = [cache[h] EXCEPT !.ttl = @ - 1, !.age = @ + 1]
           /\ \A r \in Reqs :
                /\ pc'[r] # pc[r] /\ path'[r] = "hit" => cache' = cache
                /\ pc[r] = "idle" /\ pc'[r] # "idle"
                   /\ cache[ComputeHardwareHash(Signals(req'[r].signals))].val = NoValue
                   => pc'[r] = "fetch" ]_vars

\* Call 1 created visitor 1 and cached it; call 2, one unit later, hit the
\* cache; another unit later the key had expired, and call 3 found no key,
\* went through candidate retrieval and was answered; no call failed.
C37_Witness ==
    /\ path[1] = "create" /\ path[2] = "hit" /\ path[3] = "create"
    /\ pc[3] = "done" /\ probed[3] = NoValue
    /\ probed[2] = UUIDString(1)
    /\ \A r \in 1..3 : failed[r] = {}
    /\ idents[2].created_at < idents[3].created_at
    /\ Len(idents) = 3

\* C38: a request whose rate limiter call of the cache fails is passed on to
\* the handler, and a request is answered with 429 exactly when that call
\* succeeded and the counter of its address, after the increment, exceeds
\* the limit.
C38_LimiterFailsOpen ==
    [][\A r \in Reqs :
          req[r] = NoRequest /\ req'[r] # NoRequest =>
              /\ "limit" \in failed'[r] => pc'[r] = "validate" /\ result' = result
              /\ pc'[r] = "limited"
                 <=> /\ "limit" \notin failed'[r]
                     /\ limits'[req'[r].ip].count = limits[req'[r].ip].count + 1
                     /\ limits'[req'[r].ip].count > RateLimitRequests]_vars

\* The third request of an address whose first two were answered with 200:
\* its limiter call failed, and it was handled and answered with 200 too.
C38_Witness ==
    /\ pc[1] = "ok" /\ pc[2] = "ok" /\ pc[3] = "ok"
    /\ FromSameAddress(3) = {1, 2, 3}
    /\ failed[3] = {"limit"}
    /\ Len(idents) = 3
    /\ result = NoValue

\* The features of a vector that weigh at least the environment weight.
Heavy(v) ==
    [k \in {j \in DOMAIN v.Features : v.Features[j] >= DefaultWeights.Environment}
        |-> v.Features[k]]

\* C39 as stated: two vectors ExtractFeatures produced under one weight table
\* score 1.0 only if their feature maps are equal.
C39_OneOnlyForEqualMaps ==
    result # NoValue =>
        (result[1] = One
            => SampleVectors[arg[1]].Features = SampleVectors[arg[2]].Features)

\* C39, amended: two vectors ExtractFeatures produced under one weight table
\* score 1.0 exactly when they agree on every feature that weighs at least
\* the environment weight; feature maps that differ in such a feature score
\* strictly below 1.0.
C39_OneIffHeavyFeaturesAgree ==
    result # NoValue =>
        /\ result[1] = One
            <=> Heavy(SampleVectors[arg[1]]) = Heavy(SampleVectors[arg[2]])
        /\ result[1] # One => Less(result[1], One)

\* Two bundles that differ in the screen size only were compared: their
\* feature maps differ and the score is 1.0.
C39_Witness ==
    /\ result # NoValue
    /\ AgreeOn(arg[1], arg[2], FieldNames \ {"ScreenWidth"})
    /\ arg[1].ScreenWidth # arg[2].ScreenWidth
    /\ SampleVectors[arg[1]].Features # SampleVectors[arg[2]].Features
    /\ result[1] = One

=============================================================================
